---- MODULE Spec2Model ----
(***************************************************************************)
(* A model of the AIL scenario-script disassembler: the container parser   *)
(* (Disassemble.py), the shared GlobalBuffer cursor and the string reader  *)
(* (Utilities.py), the expression VM (Fake_Stack.py), the normal opcode    *)
(* table (NormalOpcodeTable.py) and the syscall dispatcher                 *)
(* (SysCallTable.py).                                                      *)
(*                                                                         *)
(* Bytes are naturals in 0..255, byte strings are sequences of bytes, a    *)
(* decoded Python str is a sequence of Unicode code points.  Python        *)
(* offsets are 0-based: byte k of a buffer is element k + 1 of its         *)
(* sequence.  A raised exception is carried as the name of its class.      *)
(***************************************************************************)
EXTENDS Integers, Sequences, FiniteSets, TLC

VARIABLES
    pc,             \* position of the running call
    file,           \* the file at file_path: [exists, bytes]
    data,           \* Disassembler.disassemble: the bytes read from the file
    header,         \* Disassembler.disassemble: the parsed FileHeader
    GlobalBuffer,   \* Utilities.GlobalBuffer class attributes
    name_cache,     \* NormalOpcodeDisassembler.name_cache
    output,         \* the trace printed so far, one record per report
    result,         \* how disassemble ended: clause that reported, escaped exception
    vm,             \* frame of one execute_vm_code call
    call            \* frame of one call to a pure helper: function, arguments, return

vars == <<pc, file, data, header, GlobalBuffer, name_cache, output, result, vm, call>>

(***************************************************************************)
(* Python values                                                           *)
(***************************************************************************)

\* Python None, as returned by the bounds-checked readers.
None == -1

NoExc == "none"

Min(a, b) == IF a < b THEN a ELSE b

\* data[lo:hi] for 0 <= lo: the slice is clamped to the sequence.
Slice(s, lo, hi) == SubSeq(s, lo + 1, Min(hi, Len(s)))

\* x >> n
ShiftRight(x, n) == x \div (2 ^ n)

\* x & y on non-negative integers
RECURSIVE BitAnd(_, _)
BitAnd(x, y) ==
    IF x = 0 \/ y = 0 THEN 0
    ELSE (x % 2) * (y % 2) + 2 * BitAnd(x \div 2, y \div 2)

\* x | y on non-negative integers
RECURSIVE BitOr(_, _)
BitOr(x, y) ==
    IF x = 0 THEN y
    ELSE IF y = 0 THEN x
    ELSE (IF x % 2 = 1 \/ y % 2 = 1 THEN 1 ELSE 0) + 2 * BitOr(x \div 2, y \div 2)

(***************************************************************************)
(* Utilities.py                                                            *)
(***************************************************************************)

\* struct.unpack_from('<H', data, offset)
read_uint16(d, offset) == d[offset + 1] + 256 * d[offset + 2]

\* struct.unpack_from('<I', data, offset)
read_uint32(d, offset) ==
    d[offset + 1] + 256 * d[offset + 2] + 65536 * d[offset + 3] + 16777216 * d[offset + 4]

\* The safety cap of read_C_string.
StringCap == 5000

\* read_C_string's loop body without the look at the byte after a NUL: every
\* terminator moves the offset by one.
read_C_string_body_single_nul(d, st) ==
    IF st.stopped \/ ~(st.current_offset < Len(d)) THEN st
    ELSE LET current_byte == d[st.current_offset + 1] IN
         IF current_byte = 0
         THEN [st EXCEPT !.current_offset = @ + 1, !.stopped = TRUE]
         ELSE LET appended == Append(st.result, current_byte) IN
              [current_offset |-> st.current_offset + 1,
               result         |-> appended,
               stopped        |-> Len(appended) > StringCap]

\* One pass through the body of read_C_string's while loop.  st is
\* [current_offset, result, stopped]; a pass over a loop that has ended
\* (break taken, or current_offset >= len(data)) changes nothing.
read_C_string_body(d, st) ==
    IF st.stopped \/ ~(st.current_offset < Len(d)) THEN st
    ELSE LET current_byte == d[st.current_offset + 1] IN
         IF current_byte = 0
         THEN IF st.current_offset + 1 < Len(d) /\ d[st.current_offset + 2] = 0
              THEN [st EXCEPT !.current_offset = @ + 2, !.stopped = TRUE]
              ELSE [st EXCEPT !.current_offset = @ + 1, !.stopped = TRUE]
         ELSE LET appended == Append(st.result, current_byte) IN
              [current_offset |-> st.current_offset + 1,
               result         |-> appended,
               stopped        |-> Len(appended) > StringCap]

\* n passes through the loop body, evaluated as two halves so that the
\* evaluation depth stays logarithmic in n.
RECURSIVE read_C_string_loop(_, _, _)
read_C_string_loop(d, st, n) ==
    IF n <= 0 THEN st
    ELSE IF n = 1 THEN read_C_string_body(d, st)
    ELSE LET half == read_C_string_loop(d, st, n \div 2) IN
         IF half.stopped THEN half ELSE read_C_string_loop(d, half, n - (n \div 2))

\* The double-byte characters of the model's text alphabet (lead byte 0x81).
sjis_double(lead, trail) ==
    IF lead # 129 THEN None
    ELSE CASE trail = 65  -> 12289     \* 81 41 -> U+3001
           [] trail = 66  -> 12290     \* 81 42 -> U+3002
           [] trail = 121 -> 12304     \* 81 79 -> U+3010, the opening bracket
           [] trail = 122 -> 12305     \* 81 7A -> U+3011, the closing bracket
           [] trail = 128 -> 247       \* 81 80 -> U+00F7
           [] trail = 129 -> 65309     \* 81 81 -> U+FF1D
           [] OTHER       -> None

\* One character of bytes.decode(codec).  st is [pos, text, failed]; codec
\* is "shift_jis" or "cp932".  Bytes below 0x80 are themselves; 0x80 is a
\* character in cp932 only; 0x81 leads a double-byte character.
decode_char(codec, b, st) ==
    IF st.failed \/ st.pos >= Len(b) THEN st
    ELSE LET c == b[st.pos + 1] IN
         IF c < 128
         THEN [st EXCEPT !.pos = @ + 1, !.text = Append(@, c)]
         ELSE IF c = 128
         THEN IF codec = "cp932"
              THEN [st EXCEPT !.pos = @ + 1, !.text = Append(@, 128)]
              ELSE [st EXCEPT !.failed = TRUE]
         ELSE IF st.pos + 1 < Len(b) /\ sjis_double(c, b[st.pos + 2]) # None
         THEN [st EXCEPT !.pos = @ + 2, !.text = Append(@, sjis_double(c, b[st.pos + 2]))]
         ELSE [st EXCEPT !.failed = TRUE]

RECURSIVE decode_loop(_, _, _, _)
decode_loop(codec, b, st, n) ==
    IF n <= 0 THEN st
    ELSE IF n = 1 THEN decode_char(codec, b, st)
    ELSE LET half == decode_loop(codec, b, st, n \div 2) IN
         IF half.failed THEN half ELSE decode_loop(codec, b, half, n - (n \div 2))

\* bytes.decode(codec): [failed, text]
decode(codec, b) ==
    decode_loop(codec, b, [pos |-> 0, text |-> <<>>, failed |-> FALSE], Len(b))

\* str.strip('\x00')
RECURSIVE strip_nul(_)
strip_nul(s) ==
    IF s = <<>> THEN s
    ELSE IF Head(s) = 0 THEN strip_nul(Tail(s))
    ELSE IF s[Len(s)] = 0 THEN strip_nul(SubSeq(s, 1, Len(s) - 1))
    ELSE s

\* read_C_string reporting the length of the text without its terminator.
read_C_string_counting_text(d, txt_offset) ==
    IF txt_offset = None
    THEN [exc |-> "TypeError", bytes_read |-> 0, decoded_string |-> <<>>, result |-> <<>>]
    ELSE LET st == read_C_string_loop(d,
                       [current_offset |-> txt_offset, result |-> <<>>, stopped |-> FALSE],
                       Len(d) - txt_offset)
             first  == decode("shift_jis", st.result)
             second == decode("cp932", st.result)
             bytes_read == Len(st.result)
         IN  IF ~first.failed
             THEN [exc |-> NoExc, bytes_read |-> bytes_read,
                   decoded_string |-> strip_nul(first.text), result |-> st.result]
             ELSE IF ~second.failed
             THEN [exc |-> NoExc, bytes_read |-> bytes_read,
                   decoded_string |-> strip_nul(second.text), result |-> st.result]
             ELSE [exc |-> "UnicodeDecodeError", bytes_read |-> 0,
                   decoded_string |-> <<>>, result |-> st.result]

\* read_C_string(data, txt_offset): [exc, bytes_read, decoded_string, result]
\* (result is the accumulated bytearray).  A txt_offset of None makes the
\* loop condition raise TypeError; bytes neither codec decodes raise
\* UnicodeDecodeError out of the except clause.
read_C_string(d, txt_offset) ==
    IF txt_offset = None
    THEN [exc |-> "TypeError", bytes_read |-> 0, decoded_string |-> <<>>, result |-> <<>>]
    ELSE LET st == read_C_string_loop(d,
                       [current_offset |-> txt_offset, result |-> <<>>, stopped |-> FALSE],
                       Len(d) - txt_offset)
             first  == decode("shift_jis", st.result)
             second == decode("cp932", st.result)
             bytes_read == st.current_offset - txt_offset
         IN  IF ~first.failed
             THEN [exc |-> NoExc, bytes_read |-> bytes_read,
                   decoded_string |-> strip_nul(first.text), result |-> st.result]
             ELSE IF ~second.failed
             THEN [exc |-> NoExc, bytes_read |-> bytes_read,
                   decoded_string |-> strip_nul(second.text), result |-> st.result]
             ELSE [exc |-> "UnicodeDecodeError", bytes_read |-> 0,
                   decoded_string |-> <<>>, result |-> st.result]

\* get_next_byte(): [value, gb]; None at the end of command_data, the cursor
\* advanced by one otherwise.
get_next_byte(gb) ==
    IF gb.command_data_offset >= Len(gb.command_data)
    THEN [value |-> None, gb |-> gb]
    ELSE [value |-> gb.command_data[gb.command_data_offset + 1],
          gb    |-> [gb EXCEPT !.command_data_offset = @ + 1]]

\* read_next_opcode()
read_next_opcode(gb) == get_next_byte(gb)

\* get_next_word() checking for one remaining byte only: with one byte left
\* it takes the missing high byte as 0 and moves the cursor by two.
get_next_word_one_byte(gb) ==
    IF gb.command_data_offset >= Len(gb.command_data)
    THEN [value |-> None, gb |-> gb]
    ELSE [value |-> gb.command_data[gb.command_data_offset + 1]
                    + 256 * (IF gb.command_data_offset + 2 <= Len(gb.command_data)
                             THEN gb.command_data[gb.command_data_offset + 2]
                             ELSE 0),
          gb    |-> [gb EXCEPT !.command_data_offset = @ + 2]]

\* get_next_word(): [value, gb]; None unless two bytes remain, the cursor
\* advanced by two otherwise.
get_next_word(gb) ==
    IF gb.command_data_offset + 1 >= Len(gb.command_data)
    THEN [value |-> None, gb |-> gb]
    ELSE [value |-> read_uint16(Slice(gb.command_data, gb.command_data_offset,
                                      gb.command_data_offset + 2), 0),
          gb    |-> [gb EXCEPT !.command_data_offset = @ + 2]]

\* The first loop of _sub_414FE6 and of extract_bit_field: the number of
\* right shifts until bit 0 is set (the pattern is non-zero).
RECURSIVE count_trailing_zeros(_)
count_trailing_zeros(temp) ==
    IF temp % 2 = 0 THEN 1 + count_trailing_zeros(temp \div 2) ELSE 0

\* The second loop: the number of consecutive set bits from bit 0.
RECURSIVE count_ones(_)
count_ones(temp) ==
    IF temp % 2 # 0 THEN 1 + count_ones(temp \div 2) ELSE 0

\* _sub_414FE6(a1, a2): the table word_498710 is not read, value is 0.
sub_414FE6(a1, a2) ==
    IF a2 = 0 THEN a2
    ELSE LET temp_a2 == BitAnd(a2, 65535)
             i       == count_trailing_zeros(temp_a2)
             v4      == count_ones(ShiftRight(temp_a2, i))
             mask    == (2 ^ v4) - 1
             value   == 0
         IN  BitAnd(ShiftRight(value, i), mask)

\* sub_42164D(a1): the pair table searched is 0xee zero bytes; the entries
\* at offsets 0, 4, 8, ... below table_size - 1 are compared with a1.
sub_42164D(a1) ==
    LET table_size == 238
        table      == [k \in 1..table_size |-> 0]
        word_at(o) == IF o + 2 <= table_size THEN table[o + 1] + 256 * table[o + 2]
                      ELSE IF o + 1 <= table_size THEN table[o + 1]
                      ELSE 0
        hits       == {v2 \in 0..(table_size - 2) : v2 % 4 = 0 /\ word_at(v2) = a1}
    IN  IF hits = {} THEN 0
        ELSE word_at((CHOOSE v2 \in hits : \A w \in hits : v2 <= w) + 2)

(***************************************************************************)
(* Fake_Stack.py                                                           *)
(***************************************************************************)

\* The word table with every bit of every word set.
word_table_populated == [k \in 0..255 |-> 65535]

\* The global word table, equivalent to word_498710.
word_table == [k \in 0..255 |-> 0]

\* read_next_byte(): 0xFF without moving the cursor at the end of the data.
read_next_byte(gb) ==
    IF gb.command_data_offset >= Len(gb.command_data)
    THEN [value |-> 255, gb |-> gb]
    ELSE get_next_byte(gb)

\* create_mask(bit_count)
create_mask(bit_count) == IF bit_count <= 0 THEN 0 ELSE (2 ^ bit_count) - 1

\* extract_bit_field without the right shift of the table word.
extract_bit_field_in_unshifted(table, table_index, bit_pattern) ==
    IF bit_pattern = 0 THEN bit_pattern
    ELSE LET leading_zeros == count_trailing_zeros(bit_pattern)
             ones_count    == count_ones(ShiftRight(bit_pattern, leading_zeros))
             word_value    == IF table_index < 256 THEN table[table_index] ELSE 0
             mask          == create_mask(ones_count)
         IN  BitAnd(word_value, mask)

\* extract_bit_field(table_index, bit_pattern), bit_pattern an integer, with
\* table the content of the module global word_table when it is called.
extract_bit_field_in(table, table_index, bit_pattern) ==
    IF bit_pattern = 0 THEN bit_pattern
    ELSE LET leading_zeros == count_trailing_zeros(bit_pattern)
             ones_count    == count_ones(ShiftRight(bit_pattern, leading_zeros))
             word_value    == IF table_index < 256 THEN table[table_index] ELSE 0
             shifted_value == ShiftRight(word_value, leading_zeros)
             mask          == create_mask(ones_count)
         IN  BitAnd(shifted_value, mask)

\* extract_bit_field as the program calls it: nothing writes word_table.
extract_bit_field(table_index, bit_pattern) ==
    extract_bit_field_in(word_table, table_index, bit_pattern)

\* read_processed_value(): [exc, value, gb].  A bit_pattern of None (fewer
\* than two bytes left) raises TypeError at the first & applied to it.
read_processed_value(gb) ==
    LET index == read_next_byte(gb)
        word  == get_next_word(index.gb)
    IN  IF word.value = None
        THEN [exc |-> "TypeError", value |-> None, gb |-> word.gb]
        ELSE IF index.value # 255
        THEN [exc |-> NoExc, gb |-> word.gb,
              value |-> BitAnd(extract_bit_field(index.value, word.value), 65535)]
        ELSE [exc |-> NoExc, gb |-> word.gb, value |-> BitAnd(word.value, 65535)]

Last(s) == s[Len(s)]
Front(s) == SubSeq(s, 1, Len(s) - 1)
SetLast(s, v) == [s EXCEPT ![Len(s)] = v]

\* x & 0xFFFFFFFF, held as two 16-bit limbs (the value hi * 65536 + lo)
\* because it can exceed the integers of the model checker.
Mask32(x) == [hi |-> (x \div 65536) % 65536, lo |-> x % 65536]

\* The value an operator writes to flag_stack[-1] from flag_stack[-1] (top)
\* and the popped operand (val).
operator_value(operation, top, val) ==
    CASE operation = 20 -> Mask32(top + val)
      [] operation = 21 -> Mask32(top - val)
      [] operation = 22 -> Mask32(top * val)
      [] operation = 23 -> IF val # 0 THEN top \div val ELSE 0
      [] operation = 24 -> IF val # 0 THEN top % val ELSE 0
      [] operation = 0  -> IF top > val THEN 1 ELSE 0
      [] operation = 1  -> IF top <= val THEN 1 ELSE 0
      [] operation = 2  -> IF top # val THEN 1 ELSE 0
      [] operation = 3  -> IF val = top THEN 1 ELSE 0
      [] operation = 4  -> IF top >= val THEN 1 ELSE 0
      [] operation = 5  -> IF top < val THEN 1 ELSE 0

\* The operators that pop an operand: comparisons 0..5, arithmetic 20..24.
BinaryOperations == {0, 1, 2, 3, 4, 5, 20, 21, 22, 23, 24}

\* Phase 2 with an addition that keeps its result: the two top values are
\* replaced by their sum; the other operations leave the stacks alone.
apply_operation_keeping_sum(operation, value_stack, flag_stack) ==
    IF operation = 20 /\ Len(value_stack) >= 2
    THEN [value_stack |-> Append(Front(Front(value_stack)),
                                 value_stack[Len(value_stack) - 1] + Last(value_stack)),
          flag_stack  |-> Front(flag_stack)]
    ELSE [value_stack |-> value_stack, flag_stack |-> flag_stack]

\* Phase 2 of execute_vm_code on the stacks: [value_stack, flag_stack].
apply_operation(operation, value_stack, flag_stack) ==
    IF operation = 12
    THEN IF Len(flag_stack) >= 1
         THEN LET flagged == IF Last(flag_stack) # 0 THEN SetLast(flag_stack, 1)
                             ELSE IF Len(value_stack) >= 1 /\ Last(value_stack) # 0
                             THEN SetLast(flag_stack, 1)
                             ELSE SetLast(flag_stack, 0)
              IN  [value_stack |-> IF Len(value_stack) >= 1 THEN Front(value_stack)
                                   ELSE value_stack,
                   flag_stack  |-> IF Len(flagged) >= 2 THEN Front(flagged) ELSE flagged]
         ELSE [value_stack |-> value_stack, flag_stack |-> flag_stack]
    ELSE IF operation \in BinaryOperations
    THEN IF Len(value_stack) >= 1 /\ Len(flag_stack) >= 1
         THEN LET val == Last(value_stack)
                  written == SetLast(flag_stack,
                                     operator_value(operation, Last(flag_stack), val))
              IN  [value_stack |-> Front(value_stack), flag_stack |-> Front(written)]
         ELSE [value_stack |-> value_stack, flag_stack |-> flag_stack]
    ELSE IF operation = 11
    THEN [value_stack |-> value_stack,
          flag_stack  |-> IF Len(flag_stack) >= 1
                          THEN SetLast(flag_stack, IF Last(flag_stack) = 0 THEN 1 ELSE 0)
                          ELSE flag_stack]
    ELSE IF operation = 10
    THEN [value_stack |-> IF Len(value_stack) >= 1
                          THEN SetLast(value_stack, IF Last(value_stack) = 0 THEN 1 ELSE 0)
                          ELSE value_stack,
          flag_stack  |-> flag_stack]
    ELSE [value_stack |-> value_stack, flag_stack |-> flag_stack]

\* What phase 2 passes to the error handler: on a modulo by zero the code
\* has a branch for a window handle that holds only pass, and without a
\* handle it has none, so whatever hwnd is nothing is reported.
error_handler_calls(hwnd, operation, value_stack, flag_stack) ==
    IF /\ operation = 24
       /\ Len(value_stack) >= 1 /\ Len(flag_stack) >= 1
       /\ Last(value_stack) = 0
    THEN IF hwnd # None THEN <<>> ELSE <<>>
    ELSE <<>>

\* The frame of execute_vm_code at its entry.  phase is "operand" in the
\* data collection loop and "operation" between the two reads of phase 2;
\* pushed counts the operands pushed so far; hwnd is the parameter, which
\* no caller passes; reported is what the error handler has been given.
vm_entry(gb) ==
    [gb |-> gb, value_stack |-> <<>>, flag_stack |-> <<>>, phase |-> "operand",
     done |-> FALSE, ret |-> 0, exc |-> NoExc, pushed |-> 0, hwnd |-> None,
     reported |-> <<>>]

\* The data collection loop with a terminator that is looked at but not
\* consumed.
vm_operand_step_peek(f) ==
    LET next_byte == read_next_byte(f.gb) IN
    IF next_byte.value = 255
    THEN [f EXCEPT !.done = TRUE,
                   !.ret = IF f.value_stack # <<>> THEN f.value_stack[1] ELSE 0]
    ELSE IF next_byte.value # 0
    THEN [f EXCEPT !.gb = next_byte.gb, !.phase = "operation"]
    ELSE LET value == read_processed_value(next_byte.gb) IN
         IF value.exc # NoExc
         THEN [f EXCEPT !.gb = value.gb, !.done = TRUE, !.exc = value.exc]
         ELSE [f EXCEPT !.gb = value.gb,
                        !.value_stack = Append(@, value.value),
                        !.flag_stack = Append(@, 0),
                        !.pushed = @ + 1]

\* One pass through the data collection loop.
vm_operand_step(f) ==
    LET next_byte == read_next_byte(f.gb) IN
    IF next_byte.value = 255
    THEN [f EXCEPT !.gb = next_byte.gb, !.done = TRUE,
                   !.ret = IF f.value_stack # <<>> THEN f.value_stack[1] ELSE 0]
    ELSE IF next_byte.value # 0
    THEN [f EXCEPT !.gb = next_byte.gb, !.phase = "operation"]
    ELSE LET value == read_processed_value(next_byte.gb) IN
         IF value.exc # NoExc
         THEN [f EXCEPT !.gb = value.gb, !.done = TRUE, !.exc = value.exc]
         ELSE [f EXCEPT !.gb = value.gb,
                        !.value_stack = Append(@, value.value),
                        !.flag_stack = Append(@, 0),
                        !.pushed = @ + 1]

\* Phase 2: read the operation byte and process it.
vm_operation_step(f) ==
    LET operation == read_next_byte(f.gb)
        stacks    == apply_operation(operation.value, f.value_stack, f.flag_stack)
    IN  [f EXCEPT !.gb = operation.gb, !.phase = "operand",
                  !.value_stack = stacks.value_stack,
                  !.flag_stack = stacks.flag_stack,
                  !.reported = @ \o error_handler_calls(f.hwnd, operation.value,
                                                        f.value_stack, f.flag_stack)]

vm_step(f) == IF f.phase = "operand" THEN vm_operand_step(f) ELSE vm_operation_step(f)

RECURSIVE vm_run(_)
vm_run(f) == IF f.done THEN f ELSE vm_run(vm_step(f))

\* The frame after at most n passes through the loops of execute_vm_code.
RECURSIVE vm_run_within(_, _)
vm_run_within(f, n) == IF f.done \/ n = 0 THEN f ELSE vm_run_within(vm_step(f), n - 1)

\* execute_vm_code(): the frame at its return or raise: [ret, exc, gb, ...]
execute_vm_code(gb) == vm_run(vm_entry(gb))

(***************************************************************************)
(* NormalOpcodeTable.py                                                    *)
(***************************************************************************)

\* NameCache.__init__
NameCache_init == [cache |-> <<>>, last_saved_name |-> <<>>, last_saved_name_offset |-> None]

\* NameCache.get_name(offset): [found, name]; found is FALSE for None.
get_name(nc, offset) ==
    IF offset \in DOMAIN nc.cache
    THEN [found |-> TRUE, name |-> nc.cache[offset]]
    ELSE [found |-> FALSE, name |-> <<>>]

\* NameCache._is_japanese_name_bracket(text)
is_japanese_name_bracket(text) ==
    /\ text # <<>>
    /\ text[1] = 12304
    /\ text[Len(text)] = 12305

\* NameCache.cache_name without the bracket test: every name is cached.
cache_name_any(nc, offset, name) ==
    [cache |-> (offset :> name) @@ nc.cache,
     last_saved_name |-> name,
     last_saved_name_offset |-> offset]

\* NameCache.cache_name(offset, name): the cache after the call.
cache_name(nc, offset, name) ==
    IF is_japanese_name_bracket(name)
    THEN [cache |-> (offset :> name) @@ nc.cache,
          last_saved_name |-> name,
          last_saved_name_offset |-> offset]
    ELSE nc

\* VMExecutor.execute_multiple(count): [exc, results, gb]; an exception in
\* one evaluation ends the list comprehension.
RECURSIVE execute_multiple(_, _)
execute_multiple(gb, count) ==
    IF count = 0 THEN [exc |-> NoExc, results |-> <<>>, gb |-> gb]
    ELSE LET f == execute_vm_code(gb) IN
         IF f.exc # NoExc THEN [exc |-> f.exc, results |-> <<>>, gb |-> f.gb]
         ELSE LET rest == execute_multiple(f.gb, count - 1) IN
              [exc |-> rest.exc, results |-> <<f.ret>> \o rest.results, gb |-> rest.gb]

\* The keys of _build_opcode_handlers by handler; the later entry for 0xB3
\* replaces the earlier one.
SimpleVmOpcodes ==
    {2, 16, 18, 23, 24, 50, 51, 52, 53, 61, 65, 69, 71, 78, 79, 88, 91, 93, 94, 97,
     113, 114, 120, 121, 130, 139, 140, 141, 142, 150, 162, 169, 173, 214, 227, 238,
     240, 242, 246, 247, 248, 252}
SimpleExecutionOpcodes == {5, 11, 19, 118, 147, 168, 179, 202, 216, 226, 255}
DoubleVmOpcodes == {10, 31, 40, 48, 56, 58, 68, 72, 96, 102, 122, 149, 152, 198}

\* The handler table without its entry for NEWLINE (0x04).
opcode_handler_without_newline(opcode) ==
    CASE opcode \in {0, 1}                  -> "_handle_string_opcode"
      [] opcode \in SimpleVmOpcodes         -> "_handle_simple_vm_execution"
      [] opcode \in SimpleExecutionOpcodes  -> "_handle_simple_execution"
      [] opcode \in DoubleVmOpcodes         -> "_handle_double_vm_execution"
      [] opcode = 9                         -> "_handle_unk_0x09"
      [] opcode = 21                        -> "_handle_show_images"
      [] opcode = 30                        -> "_handle_show_standstills"
      [] opcode = 70                        -> "_handle_unk_0x46"
      [] opcode = 108                       -> "_handle_unk_0x6C"
      [] opcode = 110                       -> "_handle_scenario_vm"
      [] opcode = 138                       -> "_handle_play_mpg_video"
      [] opcode = 166                       -> "_handle_unk_0xA6"
      [] opcode = 172                       -> "_handle_unk_0xAC"
      [] opcode = 180                       -> "_handle_unk_0xB4"
      [] opcode = 215                       -> "_handle_get_choice_hints"
      [] opcode = 241                       -> "_handle_unk_0xF1"
      [] OTHER                              -> "none"

\* self.opcode_handlers.get(opcode): the name of the handler, "none" for None.
opcode_handler(opcode) ==
    CASE opcode \in {0, 1}                  -> "_handle_string_opcode"
      [] opcode = 4                         -> "_handle_newline"
      [] opcode \in SimpleVmOpcodes         -> "_handle_simple_vm_execution"
      [] opcode \in SimpleExecutionOpcodes  -> "_handle_simple_execution"
      [] opcode \in DoubleVmOpcodes         -> "_handle_double_vm_execution"
      [] opcode = 9                         -> "_handle_unk_0x09"
      [] opcode = 21                        -> "_handle_show_images"
      [] opcode = 30                        -> "_handle_show_standstills"
      [] opcode = 70                        -> "_handle_unk_0x46"
      [] opcode = 108                       -> "_handle_unk_0x6C"
      [] opcode = 110                       -> "_handle_scenario_vm"
      [] opcode = 138                       -> "_handle_play_mpg_video"
      [] opcode = 166                       -> "_handle_unk_0xA6"
      [] opcode = 172                       -> "_handle_unk_0xAC"
      [] opcode = 180                       -> "_handle_unk_0xB4"
      [] opcode = 215                       -> "_handle_get_choice_hints"
      [] opcode = 241                       -> "_handle_unk_0xF1"
      [] OTHER                              -> "none"

\* The number of VMExecutor evaluations a handler makes.
vm_executions(handler) ==
    CASE handler \in {"_handle_simple_vm_execution", "_handle_show_images",
                      "_handle_scenario_vm"}                         -> 1
      [] handler = "_handle_double_vm_execution"                     -> 2
      [] handler \in {"_handle_show_standstills", "_handle_unk_0x46"} -> 3
      [] handler \in {"_handle_unk_0xAC", "_handle_unk_0x09",
                      "_handle_unk_0x6C"}                            -> 4
      [] handler = "_handle_unk_0xB4"                                -> 9
      [] handler = "_handle_unk_0xF1"                                -> 10
      [] OTHER                                                       -> 0

\* _handle_string_opcode(current_offset): [exc, gb, name_cache, events]
handle_string_opcode(gb, nc, current_offset) ==
    LET opcode          == gb.command_data[current_offset + 1]
        v252            == IF opcode = 0 THEN 1 ELSE 0
        text_offset     == get_next_word(gb)
        get_string_flag == IF v252 = 0 THEN 1 ELSE 0
    IN  IF text_offset.value = None
        THEN [exc |-> NoExc, gb |-> text_offset.gb, name_cache |-> nc,
              events |-> <<[kind |-> "string_eof", offset |-> current_offset]>>]
        ELSE IF text_offset.value < Len(gb.text_data)
        THEN LET read == read_C_string(gb.text_data, text_offset.value) IN
             IF read.exc # NoExc
             THEN [exc |-> read.exc, gb |-> text_offset.gb, name_cache |-> nc,
                   events |-> <<>>]
             ELSE IF read.bytes_read = 0 /\ get_string_flag = 1
             THEN LET cached_name == get_name(nc, text_offset.value)
                      from_cache  == cached_name.found /\ cached_name.name # <<>>
                      from_last   == ~from_cache /\ nc.last_saved_name # <<>>
                  IN  [exc |-> NoExc, gb |-> text_offset.gb, name_cache |-> nc,
                       events |-> <<[kind |-> "string",
                                     text_offset |-> text_offset.value,
                                     get_string_flag |-> get_string_flag,
                                     length |-> read.bytes_read,
                                     string |-> read.decoded_string,
                                     actual_string |->
                                         IF from_cache THEN cached_name.name
                                         ELSE IF from_last THEN nc.last_saved_name
                                         ELSE <<>>,
                                     resolved |->
                                         IF from_cache THEN "cached_offset"
                                         ELSE IF from_last THEN "cached_last"
                                         ELSE "no_cache"]>>]
             ELSE [exc |-> NoExc, gb |-> text_offset.gb,
                   name_cache |-> cache_name(nc, text_offset.value, read.decoded_string),
                   events |-> <<[kind |-> "string",
                                 text_offset |-> text_offset.value,
                                 get_string_flag |-> get_string_flag,
                                 length |-> read.bytes_read,
                                 string |-> read.decoded_string,
                                 actual_string |-> read.decoded_string,
                                 resolved |-> "decoded"]>>]
        ELSE [exc |-> NoExc, gb |-> text_offset.gb, name_cache |-> nc,
              events |-> <<[kind |-> "invalid_text_offset",
                            text_offset |-> text_offset.value]>>]

\* get_next_word() followed by read_C_string(GlobalBuffer.text_data, word),
\* as in the handlers that take a string operand: [exc, gb, length, string]
read_string_operand(gb) ==
    LET word == get_next_word(gb)
        read == read_C_string(gb.text_data, word.value)
    IN  [exc |-> read.exc, gb |-> word.gb, text_offset |-> word.value,
         length |-> read.bytes_read, string |-> read.decoded_string]

\* What a handler prints for a string operand and for its VM results.
string_operand_event(handler, str) ==
    [kind |-> "string_operand", handler |-> handler, text_offset |-> str.text_offset,
     length |-> str.length, string |-> str.string]

vm_results_event(handler, run) ==
    [kind |-> "vm_results", handler |-> handler, results |-> run.results]

\* A handler whose last step is the string operand str, having printed
\* events before it: [exc, gb, name_cache, events]
after_string_operand(handler, nc, events, str) ==
    [exc |-> str.exc, gb |-> str.gb, name_cache |-> nc,
     events |-> IF str.exc # NoExc THEN <<>>
                ELSE events \o <<string_operand_event(handler, str)>>]

\* A handler whose last step is the VM evaluations run, having printed
\* events before them.
after_vm_executions(handler, nc, events, run) ==
    [exc |-> run.exc, gb |-> run.gb, name_cache |-> nc,
     events |-> IF run.exc # NoExc THEN events
                ELSE events \o <<vm_results_event(handler, run)>>]

\* _handle_scenario_vm from its string operand on.
scenario_vm_after_string(handler, nc, str) ==
    IF str.exc # NoExc
    THEN [exc |-> str.exc, gb |-> str.gb, name_cache |-> nc, events |-> <<>>]
    ELSE after_vm_executions(handler, nc, <<string_operand_event(handler, str)>>,
                             execute_multiple(str.gb, 1))

\* _handle_unk_0x09 and _handle_unk_0x6C from their VM evaluations on.
string_after_vm_executions(handler, nc, run) ==
    IF run.exc # NoExc
    THEN [exc |-> run.exc, gb |-> run.gb, name_cache |-> nc, events |-> <<>>]
    ELSE after_string_operand(handler, nc, <<vm_results_event(handler, run)>>,
                              read_string_operand(run.gb))

\* The handlers other than _handle_string_opcode: VM evaluations and a string
\* operand, in the order each handler makes them.  [exc, gb, name_cache, events]
handle_other_opcode(handler, gb, nc, current_offset) ==
    IF handler \in {"_handle_play_mpg_video", "_handle_get_choice_hints"}
    THEN after_string_operand(handler, nc, <<>>, read_string_operand(gb))
    ELSE IF handler = "_handle_scenario_vm"
    THEN scenario_vm_after_string(handler, nc, read_string_operand(gb))
    ELSE IF handler \in {"_handle_unk_0x09", "_handle_unk_0x6C"}
    THEN string_after_vm_executions(handler, nc,
                                    execute_multiple(gb, vm_executions(handler)))
    ELSE IF vm_executions(handler) > 0
    THEN after_vm_executions(handler, nc, <<>>,
                             execute_multiple(gb, vm_executions(handler)))
    ELSE [exc |-> NoExc, gb |-> gb, name_cache |-> nc,
          events |-> <<[kind |-> "executing", handler |-> handler]>>]

\* The call handler(current_offset) of process_single_command.
run_handler(handler, gb, nc, current_offset) ==
    IF handler = "_handle_string_opcode"
    THEN handle_string_opcode(gb, nc, current_offset)
    ELSE handle_other_opcode(handler, gb, nc, current_offset)

\* The try block of process_single_command once the handler has run with
\* outcome h: return 0, or the except clause's -1.
command_status(dispatched, h) ==
    IF h.exc # NoExc
    THEN [status |-> -1, gb |-> h.gb, name_cache |-> h.name_cache,
          events |-> dispatched \o h.events
                     \o <<[kind |-> "normal_error", exc |-> h.exc]>>]
    ELSE [status |-> 0, gb |-> h.gb, name_cache |-> h.name_cache,
          events |-> dispatched \o h.events]

\* process_single_command with a status of its own, -2, for an opcode that
\* has no handler.
dispatch_command_distinct(current_offset, opcode, handler, nc) ==
    IF handler # "none"
    THEN command_status(<<[kind |-> "normal_opcode", offset |-> current_offset,
                           opcode |-> opcode.value]>>,
                        run_handler(handler, opcode.gb, nc, current_offset))
    ELSE [status |-> -2, gb |-> opcode.gb, name_cache |-> nc,
          events |-> <<[kind |-> "normal_opcode", offset |-> current_offset,
                        opcode |-> opcode.value],
                       [kind |-> "unknown_opcode", offset |-> current_offset,
                        opcode |-> opcode.value],
                       [kind |-> "normal_error",
                        exc |-> "NormalOpcodeDisassemblerException"]>>]

\* process_single_command from the opcode read on.
dispatch_command(current_offset, opcode, handler, nc) ==
    IF handler # "none"
    THEN command_status(<<[kind |-> "normal_opcode", offset |-> current_offset,
                           opcode |-> opcode.value]>>,
                        run_handler(handler, opcode.gb, nc, current_offset))
    ELSE [status |-> -1, gb |-> opcode.gb, name_cache |-> nc,
          events |-> <<[kind |-> "normal_opcode", offset |-> current_offset,
                        opcode |-> opcode.value],
                       [kind |-> "unknown_opcode", offset |-> current_offset,
                        opcode |-> opcode.value],
                       [kind |-> "normal_error",
                        exc |-> "NormalOpcodeDisassemblerException"]>>]

\* process_single_command(): [status, gb, name_cache, events].  status is the
\* returned code; every exception, the one _handle_unknown_opcode raises
\* included, is caught here and turned into -1.
process_single_command(gb, nc) ==
    IF gb.command_data_offset >= Len(gb.command_data)
    THEN [status |-> -1, gb |-> gb, name_cache |-> nc, events |-> <<>>]
    ELSE dispatch_command(gb.command_data_offset, read_next_opcode(gb),
                          opcode_handler(read_next_opcode(gb).value), nc)

(***************************************************************************)
(* SysCallTable.py                                                         *)
(***************************************************************************)

\* SysCallOpcodeDisassembler._get_next_byte()
sys_get_next_byte(gb) ==
    IF gb.command_data_offset >= Len(gb.command_data)
    THEN [value |-> None, gb |-> gb]
    ELSE [value |-> gb.command_data[gb.command_data_offset + 1],
          gb    |-> [gb EXCEPT !.command_data_offset = @ + 1]]

\* SysCallOpcodeDisassembler._get_next_word()
sys_get_next_word(gb) ==
    IF gb.command_data_offset + 1 >= Len(gb.command_data)
    THEN [value |-> None, gb |-> gb]
    ELSE LET low_byte  == gb.command_data[gb.command_data_offset + 1]
             high_byte == gb.command_data[gb.command_data_offset + 2]
         IN  [value |-> BitOr(low_byte, high_byte * 256),
              gb    |-> [gb EXCEPT !.command_data_offset = @ + 2]]

\* _safe_get_next_byte(): [exc, value, gb]
safe_get_next_byte(gb) ==
    LET byte_val == sys_get_next_byte(gb) IN
    [exc   |-> IF byte_val.value = None THEN "SysCallOpcodeDisassemblerError" ELSE NoExc,
     value |-> byte_val.value, gb |-> byte_val.gb]

\* _safe_get_next_word(): [exc, value, gb]
safe_get_next_word(gb) ==
    LET word_val == sys_get_next_word(gb) IN
    [exc   |-> IF word_val.value = None THEN "SysCallOpcodeDisassemblerError" ELSE NoExc,
     value |-> word_val.value, gb |-> word_val.gb]

\* The match condition without the 0xFF wildcard.
case_matches_exact(processed_switch_param, case_value) ==
    processed_switch_param = case_value

\* The condition under which a case of _handle_switch_case is a match.
case_matches(processed_switch_param, case_value) ==
    case_value = 255 \/ processed_switch_param = case_value

\* The for loop of _handle_switch_case leaving at the first match.
RECURSIVE switch_cases_first_match(_, _, _, _, _)
switch_cases_first_match(gb, i, case_count, processed_switch_param, found_match) ==
    IF i >= case_count \/ found_match
    THEN [exc |-> NoExc, gb |-> gb, events |-> <<>>, found_match |-> found_match]
    ELSE LET case_value == safe_get_next_byte(gb) IN
         IF case_value.exc # NoExc
         THEN [exc |-> case_value.exc, gb |-> case_value.gb, events |-> <<>>,
               found_match |-> found_match]
         ELSE LET case_target == safe_get_next_word(case_value.gb) IN
              IF case_target.exc # NoExc
              THEN [exc |-> case_target.exc, gb |-> case_target.gb, events |-> <<>>,
                    found_match |-> found_match]
              ELSE LET match == case_matches(processed_switch_param, case_value.value)
                       rest  == switch_cases_first_match(case_target.gb, i + 1, case_count,
                                                         processed_switch_param,
                                                         found_match \/ match)
                   IN  [rest EXCEPT !.events =
                            <<[kind |-> "case", i |-> i, value |-> case_value.value,
                               target |-> case_target.value, match |-> match]>> \o @]

\* The for loop of _handle_switch_case from case i on:
\* [exc, gb, events, found_match]
RECURSIVE switch_cases(_, _, _, _, _)
switch_cases(gb, i, case_count, processed_switch_param, found_match) ==
    IF i >= case_count
    THEN [exc |-> NoExc, gb |-> gb, events |-> <<>>, found_match |-> found_match]
    ELSE LET case_value == safe_get_next_byte(gb) IN
         IF case_value.exc # NoExc
         THEN [exc |-> case_value.exc, gb |-> case_value.gb, events |-> <<>>,
               found_match |-> found_match]
         ELSE LET case_target == safe_get_next_word(case_value.gb) IN
              IF case_target.exc # NoExc
              THEN [exc |-> case_target.exc, gb |-> case_target.gb, events |-> <<>>,
                    found_match |-> found_match]
              ELSE LET match == case_matches(processed_switch_param, case_value.value)
                       rest  == switch_cases(case_target.gb, i + 1, case_count,
                                             processed_switch_param, found_match \/ match)
                   IN  [rest EXCEPT !.events =
                            <<[kind |-> "case", i |-> i, value |-> case_value.value,
                               target |-> case_target.value, match |-> match]>> \o @]

\* _handle_switch_case once the cases are scanned with outcome scan.
switch_end(nc, current_offset, events, default_target, scan) ==
    [exc |-> scan.exc, gb |-> scan.gb, name_cache |-> nc,
     events |-> events \o scan.events
                \o IF scan.exc = NoExc
                   THEN <<[kind |-> "switch_end", offset |-> current_offset,
                           found_match |-> scan.found_match,
                           default_reported |-> ~scan.found_match,
                           default_target |-> default_target.value]>>
                   ELSE <<>>]

\* _handle_switch_case from the transformed parameter on.
switch_scan(nc, current_offset, switch_param_raw, switch_value, default_target, case_count, processed_switch_param) ==
    switch_end(nc, current_offset,
               <<[kind |-> "switch", offset |-> current_offset],
                 [kind |-> "switch_params", offset |-> current_offset,
                  switch_param_raw |-> switch_param_raw.value,
                  switch_value |-> switch_value.value,
                  processed_switch_param |-> processed_switch_param,
                  case_count |-> case_count.value,
                  default_target |-> default_target.value]>>,
               default_target,
               switch_cases(case_count.gb, 0, case_count.value,
                            processed_switch_param, FALSE))

\* _handle_switch_case once its four operands are read.
switch_operands(nc, current_offset, switch_param_raw, switch_value, default_target, case_count) ==
    IF switch_param_raw.exc # NoExc
    THEN [exc |-> switch_param_raw.exc, gb |-> switch_param_raw.gb,
          name_cache |-> nc,
          events |-> <<[kind |-> "switch", offset |-> current_offset]>>]
    ELSE IF switch_value.exc # NoExc
    THEN [exc |-> switch_value.exc, gb |-> switch_value.gb,
          name_cache |-> nc,
          events |-> <<[kind |-> "switch", offset |-> current_offset]>>]
    ELSE IF default_target.exc # NoExc
    THEN [exc |-> default_target.exc, gb |-> default_target.gb,
          name_cache |-> nc,
          events |-> <<[kind |-> "switch", offset |-> current_offset]>>]
    ELSE IF case_count.exc # NoExc
    THEN [exc |-> case_count.exc, gb |-> case_count.gb,
          name_cache |-> nc,
          events |-> <<[kind |-> "switch", offset |-> current_offset]>>]
    ELSE switch_scan(nc, current_offset, switch_param_raw, switch_value,
                     default_target, case_count,
                     sub_414FE6(switch_param_raw.value, switch_value.value))

\* _handle_switch_case(current_offset): [exc, gb, name_cache, events]
handle_switch_case(gb, nc, current_offset) ==
    LET switch_param_raw == safe_get_next_byte(gb)
        switch_value     == safe_get_next_word(switch_param_raw.gb)
        default_target   == safe_get_next_word(switch_value.gb)
        case_count       == safe_get_next_byte(default_target.gb)
    IN  switch_operands(nc, current_offset, switch_param_raw, switch_value,
                        default_target, case_count)

\* The padding loop leaving the first non-zero byte behind the zeros unread.
RECURSIVE skip_zero_padding_only(_, _)
skip_zero_padding_only(gb, next_byte) ==
    IF next_byte = 0 /\ next_byte # None
    THEN LET again == sys_get_next_byte(gb) IN
         IF again.value = None THEN again.gb
         ELSE IF again.value # 0 THEN gb
         ELSE skip_zero_padding_only(again.gb, again.value)
    ELSE gb

\* The while loop of _handle_scenario_load_opcode that skips zero padding,
\* entered with the byte just read: the buffer after the loop.
RECURSIVE skip_zero_padding(_, _)
skip_zero_padding(gb, next_byte) ==
    IF next_byte = 0 /\ next_byte # None
    THEN LET again == sys_get_next_byte(gb) IN
         IF again.value = None THEN again.gb
         ELSE skip_zero_padding(again.gb, again.value)
    ELSE gb

\* _main_interpreter() returning what process_single_command returned (r):
\* [exc, gb, name_cache, events, status]
main_interpreter_return(r) ==
    [exc |-> NoExc, gb |-> r.gb, name_cache |-> r.name_cache, events |-> r.events,
     status |-> r.status]

\* _main_interpreter() decoding normal opcodes until one fails or the data
\* ends, as process_all_commands does.
RECURSIVE main_interpreter_all_commands(_, _)
main_interpreter_all_commands(gb, nc) ==
    LET r == process_single_command(gb, nc) IN
    IF r.status = -1 \/ r.gb.command_data_offset <= gb.command_data_offset
    THEN main_interpreter_return(r)
    ELSE LET rest == main_interpreter_all_commands(r.gb, r.name_cache) IN
         [rest EXCEPT !.events = r.events \o @]

\* _main_interpreter(), as called by a handler.
main_interpreter(gb, nc) == main_interpreter_return(process_single_command(gb, nc))

\* The handlers of the syscall opcodes, the opcode byte already consumed:
\* [exc, gb, name_cache, events].

conditional_jump_result(nc, current_offset, condition) ==
    [exc |-> condition.exc, gb |-> condition.gb, name_cache |-> nc,
     events |-> IF condition.exc # NoExc THEN <<>>
                ELSE <<[kind |-> "conditional_jump", offset |-> current_offset,
                        condition |-> condition.ret,
                        target |-> sub_42164D(condition.ret)]>>]

handle_conditional_jump(gb, nc, current_offset) ==
    conditional_jump_result(nc, current_offset, execute_vm_code(gb))

\* _handle_return handing the next byte to the normal opcode dispatcher.
handle_return_interpreting(gb, nc, current_offset) ==
    [exc |-> NoExc, gb |-> main_interpreter(gb, nc).gb,
     name_cache |-> main_interpreter(gb, nc).name_cache,
     events |-> <<[kind |-> "return", offset |-> current_offset]>>
                \o main_interpreter(gb, nc).events]

handle_return(gb, nc, current_offset) ==
    [exc |-> NoExc, gb |-> gb, name_cache |-> nc,
     events |-> <<[kind |-> "return", offset |-> current_offset]>>]

\* A handler that only evaluates expressions, with outcome run.
vm_results_only(nc, kind, current_offset, run) ==
    [exc |-> run.exc, gb |-> run.gb, name_cache |-> nc,
     events |-> IF run.exc # NoExc THEN <<>>
                ELSE <<[kind |-> kind, offset |-> current_offset,
                        results |-> run.results]>>]

handle_scenario_call(gb, nc, current_offset) ==
    vm_results_only(nc, "scenario_call", current_offset, execute_multiple(gb, 3))

\* _handle_end_processing ending the decode: the rest of the data is dropped.
handle_end_processing_stopping(gb, nc, current_offset) ==
    [exc |-> NoExc,
     gb |-> [gb EXCEPT !.command_data_offset = Len(gb.command_data)],
     name_cache |-> nc,
     events |-> <<[kind |-> "end_processing", offset |-> current_offset]>>]

handle_end_processing(gb, nc, current_offset) ==
    [exc |-> NoExc, gb |-> gb, name_cache |-> nc,
     events |-> <<[kind |-> "end_processing", offset |-> current_offset]>>]

conditional_skip_target(nc, current_offset, condition, jump_target) ==
    [exc |-> jump_target.exc, gb |-> jump_target.gb, name_cache |-> nc,
     events |-> IF jump_target.exc # NoExc THEN <<>>
                ELSE <<[kind |-> "conditional_skip", offset |-> current_offset,
                        condition |-> condition.ret,
                        jump_target |-> jump_target.value]>>]

\* _handle_conditional_skip reading the skip target whatever the condition.
conditional_skip_result_unconditional(nc, current_offset, condition) ==
    IF condition.exc # NoExc
    THEN [exc |-> condition.exc, gb |-> condition.gb, name_cache |-> nc,
          events |-> <<>>]
    ELSE conditional_skip_target(nc, current_offset, condition,
                                 safe_get_next_word(condition.gb))

conditional_skip_result(nc, current_offset, condition) ==
    IF condition.exc # NoExc
    THEN [exc |-> condition.exc, gb |-> condition.gb, name_cache |-> nc,
          events |-> <<>>]
    ELSE IF condition.ret = 0
    THEN conditional_skip_target(nc, current_offset, condition,
                                 safe_get_next_word(condition.gb))
    ELSE [exc |-> NoExc, gb |-> condition.gb, name_cache |-> nc, events |-> <<>>]

handle_conditional_skip(gb, nc, current_offset) ==
    conditional_skip_result(nc, current_offset, execute_vm_code(gb))

basic_operation_result(current_offset, inner) ==
    [exc |-> NoExc, gb |-> inner.gb, name_cache |-> inner.name_cache,
     events |-> <<[kind |-> "main_interpreter", offset |-> current_offset]>>
                \o inner.events]

handle_basic_operation(gb, nc, current_offset) ==
    basic_operation_result(current_offset, main_interpreter(gb, nc))

play_wav_result(nc, wav_param, wav_id, expression_result) ==
    [exc |-> expression_result.exc, gb |-> expression_result.gb, name_cache |-> nc,
     events |-> IF expression_result.exc # NoExc THEN <<>>
                ELSE <<[kind |-> "play_wav", param |-> wav_param.value,
                        id |-> wav_id.value, expr |-> expression_result.ret]>>]

play_wav_operands(nc, wav_param, wav_id) ==
    IF wav_param.exc # NoExc
    THEN [exc |-> wav_param.exc, gb |-> wav_param.gb, name_cache |-> nc,
          events |-> <<>>]
    ELSE IF wav_id.exc # NoExc
    THEN [exc |-> wav_id.exc, gb |-> wav_id.gb, name_cache |-> nc, events |-> <<>>]
    ELSE play_wav_result(nc, wav_param, wav_id, execute_vm_code(wav_id.gb))

handle_play_wav_opcode(gb, nc, current_offset) ==
    play_wav_operands(nc, safe_get_next_byte(gb),
                      safe_get_next_word(safe_get_next_byte(gb).gb))

audio_operation_result(current_offset, audio_param, audio_id, inner) ==
    [exc |-> NoExc, gb |-> inner.gb, name_cache |-> inner.name_cache,
     events |-> <<[kind |-> "audio_operation", offset |-> current_offset]>>
                \o inner.events
                \o <<[kind |-> "audio_op", param |-> audio_param.value,
                      id |-> audio_id.value, jump_result |-> inner.status]>>]

audio_operation_operands(nc, current_offset, audio_param, audio_id) ==
    IF audio_param.exc # NoExc
    THEN [exc |-> audio_param.exc, gb |-> audio_param.gb, name_cache |-> nc,
          events |-> <<[kind |-> "audio_operation", offset |-> current_offset]>>]
    ELSE IF audio_id.exc # NoExc
    THEN [exc |-> audio_id.exc, gb |-> audio_id.gb, name_cache |-> nc,
          events |-> <<[kind |-> "audio_operation", offset |-> current_offset]>>]
    ELSE audio_operation_result(current_offset, audio_param, audio_id,
                                main_interpreter(audio_id.gb, nc))

handle_audio_operation(gb, nc, current_offset) ==
    audio_operation_operands(nc, current_offset, safe_get_next_byte(gb),
                             safe_get_next_word(safe_get_next_byte(gb).gb))

\* _handle_simple_jump performing the jump: the cursor is set to a target
\* that lies within the command data.
simple_jump_result_jumping(nc, current_offset, jump_target) ==
    [exc |-> jump_target.exc, name_cache |-> nc,
     gb |-> IF /\ jump_target.exc = NoExc
               /\ 0 <= jump_target.value
               /\ jump_target.value < Len(jump_target.gb.command_data)
            THEN [jump_target.gb EXCEPT !.command_data_offset = jump_target.value]
            ELSE jump_target.gb,
     events |-> IF jump_target.exc # NoExc THEN <<>>
                ELSE <<[kind |-> "simple_jump", offset |-> current_offset,
                        jump_target |-> jump_target.value]>>]

simple_jump_result(nc, current_offset, jump_target) ==
    [exc |-> jump_target.exc, gb |-> jump_target.gb, name_cache |-> nc,
     events |-> IF jump_target.exc # NoExc THEN <<>>
                ELSE <<[kind |-> "simple_jump", offset |-> current_offset,
                        jump_target |-> jump_target.value]>>]

handle_simple_jump(gb, nc, current_offset) ==
    simple_jump_result(nc, current_offset, safe_get_next_word(gb))

scenario_load_padding(nc, scenario_id, next_byte) ==
    [exc |-> NoExc, name_cache |-> nc,
     gb |-> skip_zero_padding(next_byte.gb, next_byte.value),
     events |-> <<[kind |-> "load_scenario", scenario_id |-> scenario_id.ret]>>]

scenario_load_result(nc, scenario_id) ==
    IF scenario_id.exc # NoExc
    THEN [exc |-> scenario_id.exc, gb |-> scenario_id.gb, name_cache |-> nc,
          events |-> <<>>]
    ELSE scenario_load_padding(nc, scenario_id, sys_get_next_byte(scenario_id.gb))

handle_scenario_load_opcode(gb, nc, current_offset) ==
    scenario_load_result(nc, execute_vm_code(gb))

handle_call_operation_opcode(gb, nc, current_offset) ==
    vm_results_only(nc, "call", current_offset, execute_multiple(gb, 2))

\* _process_extended_opcode when opcode_handlers.get(adjusted_opcode) is None.
unknown_adjusted_opcode(gb, nc, current_offset) ==
    [exc |-> NoExc, gb |-> gb, name_cache |-> nc,
     events |-> <<[kind |-> "unknown_adjusted_opcode", offset |-> current_offset]>>]

\* _process_basic_opcode raising for an opcode without a handler, instead of
\* printing it.
unhandled_opcode_raising(gb, nc, current_offset) ==
    [exc |-> "SysCallOpcodeDisassemblerError", gb |-> gb, name_cache |-> nc,
     events |-> <<[kind |-> "unhandled_opcode", offset |-> current_offset]>>]

\* _process_basic_opcode when opcode_handlers.get(opcode) is None.
unhandled_opcode(gb, nc, current_offset) ==
    [exc |-> NoExc, gb |-> gb, name_cache |-> nc,
     events |-> <<[kind |-> "unhandled_opcode", offset |-> current_offset]>>]

\* _process_extended_opcode: opcode_handlers.get(opcode - 12)
extended_opcode_handler(opcode) ==
    LET adjusted_opcode == opcode - 12 IN
    CASE adjusted_opcode = 0 -> "_handle_conditional_jump"
      [] adjusted_opcode = 1 -> "_handle_return"
      [] adjusted_opcode = 4 -> "_handle_scenario_call"
      [] adjusted_opcode = 5 -> "_handle_end_processing"
      [] adjusted_opcode = 6 -> "_handle_conditional_skip"
      [] OTHER               -> "unknown_adjusted"

\* _process_basic_opcode: opcode_handlers.get(opcode)
basic_opcode_handler(opcode) ==
    CASE opcode = 0  -> "_handle_basic_operation"
      [] opcode = 4  -> "_handle_play_wav_opcode"
      [] opcode = 5  -> "_handle_audio_operation"
      [] opcode = 8  -> "_handle_simple_jump"
      [] opcode = 9  -> "_handle_switch_case"
      [] opcode = 10 -> "_handle_scenario_load_opcode"
      [] opcode = 11 -> "_handle_call_operation_opcode"
      [] OTHER       -> "unhandled"

\* _process_opcode(opcode, current_offset): the handler chosen.
sys_opcode_handler(opcode) ==
    IF opcode > 11 THEN extended_opcode_handler(opcode) ELSE basic_opcode_handler(opcode)

\* The classes derived from Exception that the code can raise.
ExceptionClasses ==
    {"DisassemblerError", "FileNotFoundError", "OSError", "TypeError",
     "UnicodeDecodeError", "SysCallOpcodeDisassemblerError",
     "NormalOpcodeDisassemblerException"}

\* The except clause of process_sys_calls that catches exc, by what it
\* prints; "propagates" when no clause does.
process_sys_calls_except(exc) ==
    IF exc = "SysCallOpcodeDisassemblerError" THEN "VM Error"
    ELSE IF exc \in ExceptionClasses THEN "Unexpected error in process_sys_calls"
    ELSE "propagates"

(***************************************************************************)
(* Disassemble.py                                                          *)
(***************************************************************************)

\* FileHeader before _parse_header has returned one.
NoHeader ==
    [reserved1 |-> None, command_block_size |-> None,
     command_block_for_text_size |-> None, string_table_size |-> None,
     reserved2 |-> None]

\* _read_file(file_path): [exc, message, data].  os.path.getsize raises an
\* OSError for a missing file, which is re-raised as DisassemblerError; both
\* read paths return the whole content.
read_file(f) ==
    IF ~f.exists
    THEN [exc |-> "DisassemblerError", message |-> "Cannot read file", data |-> <<>>]
    ELSE [exc |-> NoExc, message |-> "", data |-> f.bytes]

\* _parse_header without the length check: the bytes a short file lacks
\* read as 0.
parse_header_zero_filled(d) ==
    LET header_data == [k \in 1..12 |-> IF k <= Len(d) THEN d[k] ELSE 0] IN
    [exc |-> NoExc, message |-> "",
     header |->
       [reserved1                   |-> read_uint32(Slice(header_data, 0, 4), 0),
        command_block_size          |-> read_uint16(Slice(header_data, 4, 6), 0),
        command_block_for_text_size |-> read_uint16(Slice(header_data, 6, 8), 0),
        string_table_size           |-> read_uint16(Slice(header_data, 8, 10), 0),
        reserved2                   |-> read_uint16(Slice(header_data, 10, 12), 0)]]

\* _parse_header(data): [exc, message, header]
parse_header(d) ==
    IF Len(d) < 12
    THEN [exc |-> "DisassemblerError",
          message |-> "File too small to contain valid header",
          header |-> NoHeader]
    ELSE LET header_data == Slice(d, 0, 12) IN
         [exc |-> NoExc, message |-> "",
          header |->
            [reserved1                   |-> read_uint32(Slice(header_data, 0, 4), 0),
             command_block_size          |-> read_uint16(Slice(header_data, 4, 6), 0),
             command_block_for_text_size |-> read_uint16(Slice(header_data, 6, 8), 0),
             string_table_size           |-> read_uint16(Slice(header_data, 8, 10), 0),
             reserved2                   |-> read_uint16(Slice(header_data, 10, 12), 0)]]

\* _setup_global_buffers without the skip of the command block: the segments
\* are cut from file offset 12 on.
setup_global_buffers_unskipped(d, h, gb) ==
    LET required_size == 12 + h.command_block_size + h.command_block_for_text_size
                         + h.string_table_size
        offset        == 12
        command_end   == offset + h.command_block_for_text_size
        text_end      == command_end + h.string_table_size
    IN  IF Len(d) < required_size
        THEN [exc |-> "DisassemblerError",
              message |-> "File size is smaller than required", gb |-> gb]
        ELSE [exc |-> NoExc, message |-> "",
              gb |-> [gb EXCEPT !.command_data = Slice(d, offset, command_end),
                                !.text_data = Slice(d, command_end, text_end),
                                !.command_data_offset = 0,
                                !.assigned = TRUE]]

\* _setup_global_buffers with the size check after the assignments: a
\* truncated file leaves its clamped slices in the buffers.
setup_global_buffers_assign_first(d, h, gb) ==
    LET required_size == 12 + h.command_block_size + h.command_block_for_text_size
                         + h.string_table_size
        offset        == 12 + h.command_block_size
        command_end   == offset + h.command_block_for_text_size
        text_end      == command_end + h.string_table_size
        assigned      == [gb EXCEPT !.command_data = Slice(d, offset, command_end),
                                    !.text_data = Slice(d, command_end, text_end),
                                    !.command_data_offset = 0,
                                    !.assigned = TRUE]
    IN  IF Len(d) < required_size
        THEN [exc |-> "DisassemblerError",
              message |-> "File size is smaller than required", gb |-> assigned]
        ELSE [exc |-> NoExc, message |-> "", gb |-> assigned]

\* _setup_global_buffers(data, header): [exc, message, gb], gb the class
\* attributes of GlobalBuffer after the call.
setup_global_buffers(d, h, gb) ==
    LET required_size == 12 + h.command_block_size + h.command_block_for_text_size
                         + h.string_table_size
        offset        == 12 + h.command_block_size
        command_end   == offset + h.command_block_for_text_size
        text_end      == command_end + h.string_table_size
    IN  IF Len(d) < required_size
        THEN [exc |-> "DisassemblerError",
              message |-> "File size is smaller than required", gb |-> gb]
        ELSE [exc |-> NoExc, message |-> "",
              gb |-> [gb EXCEPT !.command_data = Slice(d, offset, command_end),
                                !.text_data = Slice(d, command_end, text_end),
                                !.command_data_offset = 0,
                                !.assigned = TRUE]]

\* disassemble with its first except clause only.
disassemble_except_file_only(exc) ==
    IF exc = "FileNotFoundError" THEN "Error: File not found"
    ELSE "escaped"

\* The except clause of disassemble that catches exc, by what it prints;
\* "escaped" when no clause does.
disassemble_except(exc) ==
    IF exc = "FileNotFoundError" THEN "Error: File not found"
    ELSE IF exc = "DisassemblerError" THEN "Disassembly error"
    ELSE IF exc \in ExceptionClasses THEN "Unexpected error during disassembly"
    ELSE "escaped"

\* The result of disassemble when exc is raised inside its try block.
raised_in_disassemble(exc, message) ==
    LET clause == disassemble_except(exc) IN
    [returned |-> clause # "escaped", reported |-> clause, exc |-> exc,
     message |-> message, escaped |-> IF clause = "escaped" THEN exc ELSE NoExc]

NoResult ==
    [returned |-> FALSE, reported |-> "none", exc |-> NoExc, message |-> "",
     escaped |-> NoExc]

(***************************************************************************)
(* Inputs                                                                  *)
(***************************************************************************)

\* Declared segment sizes range over 0..MaxSeg (and 256, for the high byte).
MaxSeg == 2
\* Bytes a file may hold beyond the largest declared layout.
MaxExtra == 1
\* Cases of a switch instruction.
MaxCases == 2
\* Zero bytes following a scenario-load expression.
MaxPad == 2
\* Operand and operator items of an expression given to the VM alone.
MaxVmItems == 3
\* Length of the short byte strings given to read_C_string.
MaxStrLen == 3
\* The long byte strings have StringCap - CapSlack .. StringCap + CapSlack
\* non-null bytes.
CapSlack == 2
\* Bit patterns have their set bits within a window of PatternBits bits.
PatternBits == 4

\* A 16-bit little-endian word.
Word(w) == <<w % 256, w \div 256>>

Prefixes(s) == {SubSeq(s, 1, k) : k \in 0..Len(s)}

RECURSIVE Repeat(_, _)
Repeat(s, n) == IF n = 0 THEN <<>> ELSE s \o Repeat(s, n - 1)

\* The 12-byte header declaring segment sizes a, b, c.
header_bytes(a, b, c) == <<0, 0, 0, 0>> \o Word(a) \o Word(b) \o Word(c) \o <<0, 0>>

\* n bytes that differ by position: 13, 14, ...
Body(n) == [i \in 1..n |-> 12 + i]

SegSizes == 0..MaxSeg \cup {256}

\* Files that vary the declared layout against the bytes present.
HeaderFiles ==
    {header_bytes(a, b, c) \o Body(n) :
        a \in SegSizes, b \in SegSizes, c \in SegSizes, n \in 0..(3 * MaxSeg + MaxExtra)}
    \cup Prefixes(header_bytes(1, 2, 1))

\* An operand item of an expression: the raw word x.
Push(x) == <<0, 255>> \o Word(x)

\* Expressions embedded in the instructions of whole files.
VmSamples ==
    {<<255>>, Push(5) \o <<255>>, Push(0) \o <<255>>,
     <<0, 1>> \o Word(48) \o <<255>>,
     Push(5) \o Push(3) \o <<1, 21, 255>>}

TextSamples ==
    {<<>>, <<65, 66, 0>>, <<129, 121, 65, 129, 122, 0, 0>>, <<129, 0>>, <<128, 0>>}

TextOffsets == {0, 5, 300}

\* Normal instructions: opcode and operands.
NormalSamples ==
    {<<op>> \o Word(w) : op \in {0, 1, 138, 215}, w \in TextOffsets}
    \cup {<<4>>, <<5>>, <<166>>, <<179>>, <<3>>, <<6>>}
    \cup {<<2>> \o v : v \in VmSamples}
    \cup {<<10>> \o v \o <<255>> : v \in VmSamples}
    \cup {<<110>> \o Word(w) \o v : w \in {0, 300}, v \in {<<255>>, Push(5) \o <<255>>}}
    \cup {<<op>> \o Repeat(<<255>>, 4) \o Word(0) : op \in {9, 108}}
    \cup {<<op>> \o Repeat(<<255>>, vm_executions(opcode_handler(op))) :
             op \in {21, 30, 70, 172, 180, 241}}

\* Sequences of at most n case values.
RECURSIVE CaseValues(_)
CaseValues(n) ==
    IF n = 0 THEN {<<>>}
    ELSE CaseValues(n - 1)
         \cup {Append(cs, v) : cs \in {c \in CaseValues(n - 1) : Len(c) = n - 1},
                               v \in {0, 5, 255}}

\* The case entries of a switch: value byte, then the target word.
RECURSIVE CaseEntries(_)
CaseEntries(cs) ==
    IF cs = <<>> THEN <<>>
    ELSE <<Head(cs)>> \o Word(256 + Len(cs)) \o CaseEntries(Tail(cs))

SwitchSamples ==
    {<<9, p>> \o Word(v) \o Word(513) \o <<Len(cs)>> \o CaseEntries(cs) :
        p \in {7}, v \in {0, 48}, cs \in CaseValues(MaxCases)}

\* Syscall instructions: opcode and operands.
SysSamples ==
    {<<0>> \o n : n \in NormalSamples}
    \cup {<<4, 1>> \o Word(2) \o v : v \in {<<255>>, Push(5) \o <<255>>}}
    \cup {<<5, 1>> \o Word(2) \o n : n \in {<<4>>, <<3>>, <<1>> \o Word(0), <<2, 255>>}}
    \cup {<<8>> \o Word(w) : w \in {0, 300}}
    \cup SwitchSamples
    \cup {<<10>> \o v \o Repeat(<<0>>, k) :
             v \in {<<255>>, Push(5) \o <<255>>}, k \in 0..MaxPad}
    \cup {<<11>> \o v \o <<255>> : v \in VmSamples}
    \cup {<<12>> \o v : v \in VmSamples}
    \cup {<<13>>, <<17>>, <<1>>, <<2>>, <<14>>, <<19>>, <<255>>}
    \cup {<<16>> \o v \o <<255, 255>> : v \in {<<255>>, Push(5) \o <<255>>}}
    \cup {<<18>> \o v \o Word(300) : v \in VmSamples}

\* What may follow the first instruction of a command segment.
Followers == {<<>>, <<13>>, <<1>>, <<0, 4>>, <<0, 1, 0, 0>>, <<0, 1, 5, 0>>, <<12, 0>>}

\* Command segments: an instruction and a follower, cut anywhere.
CommandSamples ==
    UNION {Prefixes(i \o f) : i \in SysSamples, f \in Followers}

\* Well-formed files around each command segment and text segment.
DecodeFiles ==
    {header_bytes(0, Len(c), Len(t)) \o c \o t : c \in CommandSamples, t \in TextSamples}

Files ==
    {[exists |-> TRUE, bytes |-> b] : b \in HeaderFiles \cup DecodeFiles}
    \cup {[exists |-> FALSE, bytes |-> <<>>]}

(***************************************************************************)
(* Disassembler.disassemble(file_path)                                     *)
(***************************************************************************)

\* GlobalBuffer before any call: command_data and text_data have no class
\* attribute yet (assigned is FALSE), the offsets have their defaults.
GlobalBuffer_init ==
    [command_data |-> <<>>, text_data |-> <<>>, command_data_offset |-> 0,
     text_data_offset |-> 0, assigned |-> FALSE]

NoCall == [fn |-> "none"]

Init ==
    /\ pc = "read_file"
    /\ file \in Files
    /\ data = <<>>
    /\ header = NoHeader
    /\ GlobalBuffer = GlobalBuffer_init
    /\ name_cache = NameCache_init
    /\ output = <<>>
    /\ result = NoResult
    /\ vm = vm_entry(GlobalBuffer_init)
    /\ call = NoCall

\* data = self._read_file(file_path)
ReadFile ==
    /\ pc = "read_file"
    /\ LET r == read_file(file) IN
       IF r.exc = NoExc
       THEN /\ data' = r.data
            /\ pc' = "parse_header"
            /\ result' = result
       ELSE /\ data' = data
            /\ pc' = "done"
            /\ result' = raised_in_disassemble(r.exc, r.message)
    /\ UNCHANGED <<file, header, GlobalBuffer, name_cache, output, vm, call>>

\* header = self._parse_header(data)
ParseHeader ==
    /\ pc = "parse_header"
    /\ LET r == parse_header(data) IN
       IF r.exc = NoExc
       THEN /\ header' = r.header
            /\ pc' = "setup_global_buffers"
            /\ result' = result
       ELSE /\ header' = header
            /\ pc' = "done"
            /\ result' = raised_in_disassemble(r.exc, r.message)
    /\ UNCHANGED <<file, data, GlobalBuffer, name_cache, output, vm, call>>

\* self._setup_global_buffers(data, header)
SetupGlobalBuffers ==
    /\ pc = "setup_global_buffers"
    /\ LET r == setup_global_buffers(data, header, GlobalBuffer) IN
       IF r.exc = NoExc
       THEN /\ pc' = "process_sys_calls"
            /\ result' = result
       ELSE /\ pc' = "done"
            /\ result' = raised_in_disassemble(r.exc, r.message)
    /\ GlobalBuffer' = setup_global_buffers(data, header, GlobalBuffer).gb
    /\ UNCHANGED <<file, data, header, name_cache, output, vm, call>>

\* The result of disassemble when exc is raised inside process_sys_calls.
raised_in_process_sys_calls(exc) ==
    LET clause == process_sys_calls_except(exc) IN
    IF clause = "propagates" THEN raised_in_disassemble(exc, "")
    ELSE [returned |-> TRUE, reported |-> clause, exc |-> exc, message |-> "",
          escaped |-> NoExc]

\* The loop of process_sys_calls dispatching an opcode it has not consumed.
after_opcode_unread(gb) == gb

\* The buffer once the loop of process_sys_calls has read its opcode.
after_opcode(gb) == sys_get_next_byte(gb).gb

\* One pass through the while loop of process_sys_calls in which the opcode
\* read is dispatched to handler, whose outcome is h.
SysCall(handler, h) ==
    /\ pc = "process_sys_calls"
    /\ GlobalBuffer.command_data_offset < Len(GlobalBuffer.command_data)
    /\ sys_opcode_handler(sys_get_next_byte(GlobalBuffer).value) = handler
    /\ GlobalBuffer' = h.gb
    /\ name_cache' = h.name_cache
    /\ output' = output
                 \o <<[kind |-> "sys_opcode",
                       offset |-> GlobalBuffer.command_data_offset,
                       opcode |-> sys_get_next_byte(GlobalBuffer).value,
                       handler |-> handler]>>
                 \o h.events
    /\ IF h.exc = NoExc
       THEN pc' = pc /\ result' = result
       ELSE pc' = "done" /\ result' = raised_in_process_sys_calls(h.exc)
    /\ UNCHANGED <<file, data, header, vm, call>>

HandleBasicOperation ==
    SysCall("_handle_basic_operation",
            handle_basic_operation(after_opcode(GlobalBuffer), name_cache,
                                   GlobalBuffer.command_data_offset))
HandlePlayWav ==
    SysCall("_handle_play_wav_opcode",
            handle_play_wav_opcode(after_opcode(GlobalBuffer), name_cache,
                                   GlobalBuffer.command_data_offset))
HandleAudioOperation ==
    SysCall("_handle_audio_operation",
            handle_audio_operation(after_opcode(GlobalBuffer), name_cache,
                                   GlobalBuffer.command_data_offset))
HandleSimpleJump ==
    SysCall("_handle_simple_jump",
            handle_simple_jump(after_opcode(GlobalBuffer), name_cache,
                               GlobalBuffer.command_data_offset))
HandleSwitchCase ==
    SysCall("_handle_switch_case",
            handle_switch_case(after_opcode(GlobalBuffer), name_cache,
                               GlobalBuffer.command_data_offset))
HandleScenarioLoad ==
    SysCall("_handle_scenario_load_opcode",
            handle_scenario_load_opcode(after_opcode(GlobalBuffer), name_cache,
                                        GlobalBuffer.command_data_offset))
HandleCallOperation ==
    SysCall("_handle_call_operation_opcode",
            handle_call_operation_opcode(after_opcode(GlobalBuffer), name_cache,
                                         GlobalBuffer.command_data_offset))
HandleConditionalJump ==
    SysCall("_handle_conditional_jump",
            handle_conditional_jump(after_opcode(GlobalBuffer), name_cache,
                                    GlobalBuffer.command_data_offset))
HandleReturn ==
    SysCall("_handle_return",
            handle_return(after_opcode(GlobalBuffer), name_cache,
                          GlobalBuffer.command_data_offset))
HandleScenarioCall ==
    SysCall("_handle_scenario_call",
            handle_scenario_call(after_opcode(GlobalBuffer), name_cache,
                                 GlobalBuffer.command_data_offset))
HandleEndProcessing ==
    SysCall("_handle_end_processing",
            handle_end_processing(after_opcode(GlobalBuffer), name_cache,
                                  GlobalBuffer.command_data_offset))
HandleConditionalSkip ==
    SysCall("_handle_conditional_skip",
            handle_conditional_skip(after_opcode(GlobalBuffer), name_cache,
                                    GlobalBuffer.command_data_offset))
UnknownAdjustedOpcode ==
    SysCall("unknown_adjusted",
            unknown_adjusted_opcode(after_opcode(GlobalBuffer), name_cache,
                                    GlobalBuffer.command_data_offset))
UnhandledOpcode ==
    SysCall("unhandled",
            unhandled_opcode(after_opcode(GlobalBuffer), name_cache,
                             GlobalBuffer.command_data_offset))

\* The while condition of process_sys_calls fails: it returns, and so does
\* disassemble.
EndOfCommands ==
    /\ pc = "process_sys_calls"
    /\ ~(GlobalBuffer.command_data_offset < Len(GlobalBuffer.command_data))
    /\ pc' = "done"
    /\ result' = [result EXCEPT !.returned = TRUE]
    /\ UNCHANGED <<file, data, header, GlobalBuffer, name_cache, output, vm, call>>

Next ==
    \/ ReadFile
    \/ ParseHeader
    \/ SetupGlobalBuffers
    \/ HandleBasicOperation
    \/ HandlePlayWav
    \/ HandleAudioOperation
    \/ HandleSimpleJump
    \/ HandleSwitchCase
    \/ HandleScenarioLoad
    \/ HandleCallOperation
    \/ HandleConditionalJump
    \/ HandleReturn
    \/ HandleScenarioCall
    \/ HandleEndProcessing
    \/ HandleConditionalSkip
    \/ UnknownAdjustedOpcode
    \/ UnhandledOpcode
    \/ EndOfCommands

Spec == Init /\ [][Next]_vars

(***************************************************************************)
(* disassemble() run to its return, on a part of the files                 *)
(***************************************************************************)

\* Every instruction followed by a return opcode, cut anywhere, beside one
\* text segment; the header of a short file, cut anywhere; a missing file.
TerminationFiles ==
    {[exists |-> TRUE, bytes |-> header_bytes(0, Len(c), 3) \o c \o <<65, 66, 0>>] :
        c \in UNION {Prefixes(i \o <<13>>) : i \in SysSamples}}
    \cup {[exists |-> TRUE, bytes |-> b] : b \in Prefixes(header_bytes(1, 2, 1))}
    \cup {[exists |-> FALSE, bytes |-> <<>>]}

InitTermination ==
    /\ pc = "read_file"
    /\ file \in TerminationFiles
    /\ data = <<>>
    /\ header = NoHeader
    /\ GlobalBuffer = GlobalBuffer_init
    /\ name_cache = NameCache_init
    /\ output = <<>>
    /\ result = NoResult
    /\ vm = vm_entry(GlobalBuffer_init)
    /\ call = NoCall

\* The call is one thread of control and a statement that can run does run:
\* weak fairness of Next, WF_vars(Next), in which ENABLED <<Next>>_vars is
\* written as the state predicate it equals, the call not having returned.
Fairness == []<>(pc = "done") \/ []<><<Next>>_vars

SpecTermination == InitTermination /\ [][Next]_vars /\ Fairness

(***************************************************************************)
(* Several calls of disassemble() on one Disassembler object               *)
(***************************************************************************)

\* The text segment holding the name 【A】 at offset 0 and an empty string
\* at offset 5.
NameText == <<129, 121, 65, 129, 122, 0, 0>>

\* Command segments that between them reach every handler.
SequenceSegments ==
    {<<0, 1, 0, 0>> \o <<4, 1>> \o Word(2) \o <<255>> \o <<5, 1>> \o Word(2) \o <<4>>
        \o <<8>> \o Word(300) \o <<11, 255, 255>> \o <<12, 255>> \o <<13>>,
     <<9, 7>> \o Word(0) \o Word(513) \o <<1, 5>> \o Word(257)
        \o <<16, 255, 255, 255>> \o <<17>> \o <<18, 255>> \o Word(300)
        \o <<1>> \o <<14>> \o <<10, 255, 0>>,
     <<0, 1, 5, 0>>,
     <<13>>}

SequenceFiles ==
    {[exists |-> TRUE, bytes |-> header_bytes(0, Len(c), Len(NameText)) \o c \o NameText] :
        c \in SequenceSegments}
    \cup {[exists |-> TRUE, bytes |-> header_bytes(1, 2, 1)],
          [exists |-> TRUE, bytes |-> <<0, 0>>],
          [exists |-> FALSE, bytes |-> <<>>]}

InitSequence ==
    /\ pc = "read_file"
    /\ file \in SequenceFiles
    /\ data = <<>>
    /\ header = NoHeader
    /\ GlobalBuffer = GlobalBuffer_init
    /\ name_cache = NameCache_init
    /\ output = <<>>
    /\ result = NoResult
    /\ vm = vm_entry(GlobalBuffer_init)
    /\ call = NoCall

\* disassemble() has returned and is called again on the same object, for
\* any file: the locals and what the call prints are those of the new call;
\* self.sys_call_executer, and with it the NameCache made in __init__, and
\* the class attributes of GlobalBuffer are what the last call left.
DisassembleAgain ==
    /\ pc = "done"
    /\ pc' = "read_file"
    /\ file' \in SequenceFiles
    /\ data' = <<>>
    /\ header' = NoHeader
    /\ output' = <<>>
    /\ result' = NoResult
    /\ UNCHANGED <<GlobalBuffer, name_cache, vm, call>>

NextSequence ==
    \/ Next
    \/ DisassembleAgain

SpecSequence == InitSequence /\ [][NextSequence]_vars

(***************************************************************************)
(* Two calls of disassemble(), on two Disassembler objects, in flight      *)
(***************************************************************************)

\* The number of times control passes from a call that has not returned to
\* the other call.
MaxSwitches == 3

\* The call that is not running: its object's NameCache, its locals, what
\* it has printed.  GlobalBuffer is a class whose attributes the code
\* assigns and reads: there is one for the process, whatever the number of
\* Disassembler objects.
Suspended(id, p, f, d, h, nc, out, res, n) ==
    [fn |-> "disassemble", id |-> id, pc |-> p, file |-> f, data |-> d, header |-> h,
     name_cache |-> nc, output |-> out, result |-> res, switches |-> n]

InitInterleaved ==
    /\ pc = "read_file"
    /\ file \in SequenceFiles
    /\ data = <<>>
    /\ header = NoHeader
    /\ GlobalBuffer = GlobalBuffer_init
    /\ name_cache = NameCache_init
    /\ output = <<>>
    /\ result = NoResult
    /\ vm = vm_entry(GlobalBuffer_init)
    /\ call \in {Suspended(2, "read_file", f, <<>>, NoHeader, NameCache_init, <<>>,
                           NoResult, 0) : f \in SequenceFiles}

\* The number of the call that is running.
Running == 3 - call.id

\* Control passes to the other call, between two statements of the running
\* one or after it has returned.
SwitchCall ==
    /\ call.pc # "done"
    /\ pc = "done" \/ call.switches < MaxSwitches
    /\ pc' = call.pc
    /\ file' = call.file
    /\ data' = call.data
    /\ header' = call.header
    /\ name_cache' = call.name_cache
    /\ output' = call.output
    /\ result' = call.result
    /\ call' = Suspended(Running, pc, file, data, header, name_cache, output, result,
                         IF pc = "done" THEN call.switches ELSE call.switches + 1)
    /\ UNCHANGED <<GlobalBuffer, vm>>

NextInterleaved ==
    \/ Next
    \/ SwitchCall

SpecInterleaved == InitInterleaved /\ [][NextInterleaved]_vars

(***************************************************************************)
(* execute_vm_code() on its own, one loop pass at a time                   *)
(***************************************************************************)

VmOperands == {0, 3, 5, 65535}
VmOperators == {0, 1, 2, 3, 4, 5, 10, 11, 12, 20, 21, 22, 23, 24}

\* The items of an expression: a raw operand, an operand extracted through
\* the word table, an operator behind its marker byte.
VmItems ==
    {Push(x) : x \in VmOperands}
    \cup {<<0, 1>> \o Word(48)}
    \cup {<<1, op>> : op \in VmOperators}

\* The concatenations of at most n items.
RECURSIVE ItemSeqs(_)
ItemSeqs(n) ==
    IF n = 0 THEN {<<>>}
    ELSE ItemSeqs(n - 1) \cup {p \o i : p \in ItemSeqs(n - 1), i \in VmItems}

\* Terminated expressions, expressions cut short, and a terminator with
\* bytes behind it.
VmPrograms ==
    {p \o <<255>> : p \in ItemSeqs(MaxVmItems)}
    \cup UNION {Prefixes(p) : p \in ItemSeqs(1)}
    \cup {<<255>> \o p : p \in ItemSeqs(1)}

InitVM ==
    /\ pc = "execute_vm_code"
    /\ file = [exists |-> FALSE, bytes |-> <<>>]
    /\ data = <<>>
    /\ header = NoHeader
    /\ \E p \in VmPrograms :
          GlobalBuffer = [GlobalBuffer_init EXCEPT !.command_data = p, !.assigned = TRUE]
    /\ name_cache = NameCache_init
    /\ output = <<>>
    /\ result = NoResult
    /\ vm = vm_entry(GlobalBuffer)
    /\ call = NoCall

\* One pass through the data collection loop of execute_vm_code.
VmOperandPhase ==
    /\ pc = "execute_vm_code"
    /\ ~vm.done
    /\ vm.phase = "operand"
    /\ vm' = vm_operand_step(vm)
    /\ GlobalBuffer' = vm'.gb
    /\ UNCHANGED <<pc, file, data, header, name_cache, output, result, call>>

\* Phase 2 of execute_vm_code: the operation byte is read and processed.
VmOperationPhase ==
    /\ pc = "execute_vm_code"
    /\ ~vm.done
    /\ vm.phase = "operation"
    /\ vm' = vm_operation_step(vm)
    /\ GlobalBuffer' = vm'.gb
    /\ UNCHANGED <<pc, file, data, header, name_cache, output, result, call>>

NextVM == VmOperandPhase \/ VmOperationPhase

SpecVM == InitVM /\ [][NextVM]_vars

(***************************************************************************)
(* The helper functions called on their own                                *)
(***************************************************************************)

\* Bytes of the short strings: NUL, two letters, the bracket trail byte, a
\* byte only cp932 decodes, the lead byte.
StrAlphabet == {0, 65, 66, 121, 128, 129}

RECURSIVE Strings(_)
Strings(n) ==
    IF n = 0 THEN {<<>>}
    ELSE Strings(n - 1) \cup {Append(t, b) : t \in Strings(n - 1), b \in StrAlphabet}

\* Runs of non-null bytes around the cap, with and without a terminator.
LongStrings ==
    {[i \in 1..n |-> 65] \o t :
        n \in (StringCap - CapSlack)..(StringCap + CapSlack),
        t \in {<<>>, <<0>>, <<0, 0>>, <<0, 65>>}}

ReadCStringCalls ==
    {[fn |-> "read_C_string", data |-> d, txt_offset |-> o, returned |-> FALSE] :
        d \in Strings(MaxStrLen), o \in 0..MaxStrLen}
    \cup {[fn |-> "read_C_string", data |-> d, txt_offset |-> 0, returned |-> FALSE] :
             d \in LongStrings}

\* 16-bit patterns whose set bits lie in a window of PatternBits bits.
BitPatterns ==
    {m * (2 ^ sh) : m \in 0..(2 ^ PatternBits - 1), sh \in 0..(16 - PatternBits)}

TableIndexes == {0, 1, 7, 254}

\* What word_table[table_index] holds when extract_bit_field is called: the
\* program's 0, and values a caller of the module may have stored.
TableValues == {0, 53, 43690, 65535}

ExtractBitFieldCalls ==
    {[fn |-> "extract_bit_field", table_index |-> i, table_value |-> v,
      bit_pattern |-> b, returned |-> FALSE] :
        i \in TableIndexes, v \in TableValues, b \in BitPatterns}

Sub414FE6Calls ==
    {[fn |-> "_sub_414FE6", a1 |-> i, a2 |-> b, returned |-> FALSE] :
        i \in TableIndexes, b \in BitPatterns}

\* Condition values handed to the jump-target lookup.
ConditionValues == 0..63 \cup {255, 256, 257, 32768, 65534, 65535}

Sub42164DCalls ==
    {[fn |-> "sub_42164D", a1 |-> c, returned |-> FALSE] : c \in ConditionValues}

\* An operand item behind its marker byte: the index byte and the word.
ReadProcessedValueCalls ==
    {[fn |-> "read_processed_value", table_index |-> i, bit_pattern |-> b,
      returned |-> FALSE] :
        i \in TableIndexes \cup {255}, b \in BitPatterns}

InitCall ==
    /\ pc = "call"
    /\ file = [exists |-> FALSE, bytes |-> <<>>]
    /\ data = <<>>
    /\ header = NoHeader
    /\ GlobalBuffer = GlobalBuffer_init
    /\ name_cache = NameCache_init
    /\ output = <<>>
    /\ result = NoResult
    /\ vm = vm_entry(GlobalBuffer_init)
    /\ call \in ReadCStringCalls \cup ExtractBitFieldCalls \cup Sub414FE6Calls
                \cup Sub42164DCalls \cup ReadProcessedValueCalls

\* The call returns (or raises): its outcome is kept beside its arguments.
Return(ret) ==
    /\ pc = "call"
    /\ pc' = "returned"
    /\ call' = [fn |-> call.fn, args |-> call, returned |-> TRUE, ret |-> ret]
    /\ UNCHANGED <<file, data, header, GlobalBuffer, name_cache, output, result, vm>>

CallReadCString ==
    /\ call.fn = "read_C_string"
    /\ Return(read_C_string(call.data, call.txt_offset))

CallExtractBitField ==
    /\ call.fn = "extract_bit_field"
    /\ Return(extract_bit_field_in([word_table EXCEPT ![call.table_index] = call.table_value],
                                   call.table_index, call.bit_pattern))

CallSub414FE6 ==
    /\ call.fn = "_sub_414FE6"
    /\ Return(sub_414FE6(call.a1, call.a2))

CallSub42164D ==
    /\ call.fn = "sub_42164D"
    /\ Return(sub_42164D(call.a1))

\* read_processed_value() with the cursor at the index byte of the item.
CallReadProcessedValue ==
    /\ call.fn = "read_processed_value"
    /\ Return(read_processed_value(
                  [GlobalBuffer_init EXCEPT
                      !.command_data = <<call.table_index>> \o Word(call.bit_pattern),
                      !.assigned = TRUE]))

NextCall ==
    \/ CallReadCString
    \/ CallExtractBitField
    \/ CallSub414FE6
    \/ CallSub42164D
    \/ CallReadProcessedValue

SpecCall == InitCall /\ [][NextCall]_vars

(***************************************************************************)
(* Properties                                                              *)
(***************************************************************************)

\* The little-endian word at file offset k of the bytes read.
Declared(k) == data[k + 1] + 256 * data[k + 2]

\* C1: for an input of at least 12 bytes whose header declares the sizes a,
\* b, c: if 12 + a + b + c <= file size, the buffers are set up, command_data
\* is the b bytes from file offset 12 + a, text_data the c bytes from file
\* offset 12 + a + b, and the cursor is 0 until an opcode is read; otherwise
\* the decode ends with the truncated-file error and no buffer assigned.
C1_SegmentsSlicedOrTruncated ==
    (Len(data) >= 12 /\ pc \in {"process_sys_calls", "done"}) =>
        LET a == Declared(4)
            b == Declared(6)
            c == Declared(8)
        IN  IF 12 + a + b + c <= Len(data)
            THEN /\ GlobalBuffer.assigned
                 /\ GlobalBuffer.command_data = [i \in 1..b |-> data[12 + a + i]]
                 /\ GlobalBuffer.text_data = [i \in 1..c |-> data[12 + a + b + i]]
                 /\ output = <<>> => GlobalBuffer.command_data_offset = 0
                 /\ result.message # "File size is smaller than required"
            ELSE /\ pc = "done"
                 /\ result.exc = "DisassemblerError"
                 /\ result.message = "File size is smaller than required"
                 /\ ~GlobalBuffer.assigned
                 /\ output = <<>>

\* A file with a skipped block, both segments non-empty and bytes to spare
\* has just been set up.
C1_Witness ==
    /\ pc = "process_sys_calls"
    /\ output = <<>>
    /\ Len(data) > 16
    /\ Declared(4) = 1 /\ Declared(6) = 2 /\ Declared(8) = 1
    /\ GlobalBuffer.command_data = <<data[14], data[15]>>
    /\ GlobalBuffer.text_data = <<data[16]>>
    /\ GlobalBuffer.command_data_offset = 0

\* C2: for an input shorter than 12 bytes, the empty one included, the
\* decode ends with the too-small error; no header field is ever read and
\* the set-up that compares the sizes with the file size is never entered.
C2_TooSmallBeforeAnyField ==
    (file.exists /\ Len(file.bytes) < 12) =>
        /\ pc \in {"read_file", "parse_header", "done"}
        /\ header = NoHeader
        /\ ~GlobalBuffer.assigned
        /\ pc = "done" =>
              /\ result.exc = "DisassemblerError"
              /\ result.message = "File too small to contain valid header"
              /\ result.reported = "Disassembly error"

\* The empty file has been refused.
C2_Witness ==
    /\ pc = "done"
    /\ file.exists
    /\ file.bytes = <<>>
    /\ result.message = "File too small to contain valid header"
    /\ header = NoHeader

\* What disassemble and process_sys_calls print for a failure they catch.
Reports ==
    {"Error: File not found", "Disassembly error", "Unexpected error during disassembly",
     "VM Error", "Unexpected error in process_sys_calls"}

\* No exception has left disassemble; a failure that ended the decode is
\* reported, and a failure inside a normal-opcode handler is one that
\* process_single_command caught.
NoExceptionEscapes ==
    /\ result.escaped = NoExc
    /\ pc = "done" => result.returned
    /\ result.exc # NoExc => (pc = "done" /\ result.reported \in Reports)
    /\ \A k \in 1..Len(output) :
          output[k].kind = "normal_error" => output[k].exc \in ExceptionClasses

\* The statements of disassemble in the order they run.
Statement(p) ==
    CASE p = "read_file" -> 0
      [] p = "parse_header" -> 1
      [] p = "setup_global_buffers" -> 2
      [] p = "process_sys_calls" -> 3
      [] p = "done" -> 4

\* A step either moves disassemble to a later statement or moves the cursor
\* forward in command_data, so the steps of one call are finitely many.
Progress ==
    \/ Statement(pc') > Statement(pc)
    \/ /\ pc' = pc
       /\ GlobalBuffer'.command_data = GlobalBuffer.command_data
       /\ GlobalBuffer'.command_data_offset > GlobalBuffer.command_data_offset
       /\ GlobalBuffer'.command_data_offset <= Len(GlobalBuffer.command_data)

\* The handlers process_sys_calls dispatches to, the two fall-backs included.
SysHandlers ==
    {"_handle_basic_operation", "_handle_play_wav_opcode", "_handle_audio_operation",
     "_handle_simple_jump", "_handle_switch_case", "_handle_scenario_load_opcode",
     "_handle_call_operation_opcode", "_handle_conditional_jump", "_handle_return",
     "_handle_scenario_call", "_handle_end_processing", "_handle_conditional_skip",
     "unknown_adjusted", "unhandled"}

\* disassemble has returned, or its next statement can run: in the loop of
\* process_sys_calls the data is at its end or the byte at the cursor has a
\* handler.
CanGoOn ==
    \/ pc \in {"read_file", "parse_header", "setup_global_buffers", "done"}
    \/ /\ pc = "process_sys_calls"
       /\ \/ GlobalBuffer.command_data_offset >= Len(GlobalBuffer.command_data)
          \/ sys_opcode_handler(sys_get_next_byte(GlobalBuffer).value) \in SysHandlers

\* C3: for every input disassemble returns normally: a failure while
\* reading the file, parsing the header, setting up the buffers or decoding
\* opcodes is caught and reported and never reaches the caller; the call
\* can always go on until it has returned, and each of its steps makes
\* progress, so it returns after finitely many.
C3_DisassembleReturnsNormally ==
    /\ [](NoExceptionEscapes /\ CanGoOn)
    /\ [][Progress]_vars

\* A normal-opcode handler has failed, and then the Expression VM has failed
\* inside a syscall handler, which ended the decode.
C3_Witness ==
    /\ pc = "done"
    /\ result.returned
    /\ result.exc = "TypeError"
    /\ result.reported = "Unexpected error in process_sys_calls"
    /\ \E k \in 1..Len(output) : output[k].kind = "normal_error"

\* A call of read_C_string that has returned or raised.
ReadCStringReturned == pc = "returned" /\ call.fn = "read_C_string"

\* The number of non-null bytes of d from offset o on (o <= Len(d)).
NonNullRun(d, o) ==
    LET nuls == {k \in (o + 1)..Len(d) : d[k] = 0} IN
    IF nuls = {} THEN Len(d) - o
    ELSE (CHOOSE k \in nuls : \A j \in nuls : k <= j) - 1 - o

\* The run of n bytes of d from offset o on.
Run(d, o, n) == [i \in 1..n |-> d[o + i]]

\* The bytes after the run: 2 for two NUL bytes, 1 for a NUL followed by
\* another byte or by the end of the data, 0 when the data ends with the run.
TerminatorSize(d, o, n) ==
    IF o + n >= Len(d) THEN 0
    ELSE IF o + n + 1 < Len(d) /\ d[o + n + 2] = 0 THEN 2
    ELSE 1

Decodable(b) == ~decode("shift_jis", b).failed \/ ~decode("cp932", b).failed

\* The text of b: Shift-JIS, or cp932 for bytes Shift-JIS has no character for.
Decoding(b) ==
    IF ~decode("shift_jis", b).failed THEN decode("shift_jis", b).text
    ELSE decode("cp932", b).text

\* read_C_string returned the text of the first n bytes from the offset and
\* reported n + extra bytes.
ReadAs(n, extra) ==
    /\ call.ret.exc = NoExc
    /\ call.ret.decoded_string = Decoding(Run(call.args.data, call.args.txt_offset, n))
    /\ call.ret.bytes_read = n + extra

\* C4 as stated: n decodable non-null bytes followed by a terminator give
\* the text of exactly those n bytes and n + 1 or n + 2 bytes consumed, for
\* every n.
C4_AnyLengthUpToTerminator ==
    ReadCStringReturned =>
        LET d == call.args.data
            o == call.args.txt_offset
        IN  o <= Len(d) =>
              LET n == NonNullRun(d, o) IN
              (TerminatorSize(d, o, n) > 0 /\ Decodable(Run(d, o, n)))
                  => ReadAs(n, TerminatorSize(d, o, n))

\* C4: read_C_string on n decodable non-null bytes followed by a terminator
\* returns the text of exactly those n bytes with n + 1 bytes consumed for
\* a single NUL and n + 2 for two NUL bytes, provided n <= 5000; a longer
\* run is cut after 5001 bytes and its terminator is not consumed.
\* [0x41, 0x42, 0x00] at offset 0 gives (3, "AB"), [0x00, 0x00] gives (2, "").
C4_UpToTerminatorWithinCap ==
    ReadCStringReturned =>
        LET d == call.args.data
            o == call.args.txt_offset
        IN  /\ o <= Len(d) =>
                 LET n == NonNullRun(d, o) IN
                 /\ (n <= StringCap /\ TerminatorSize(d, o, n) > 0
                                    /\ Decodable(Run(d, o, n)))
                        => ReadAs(n, TerminatorSize(d, o, n))
                 /\ (n > StringCap /\ Decodable(Run(d, o, StringCap + 1)))
                        => ReadAs(StringCap + 1, 0)
            /\ (d = <<65, 66, 0>> /\ o = 0)
                  => (call.ret.bytes_read = 3 /\ call.ret.decoded_string = <<65, 66>>)
            /\ (d = <<0, 0>> /\ o = 0)
                  => (call.ret.bytes_read = 2 /\ call.ret.decoded_string = <<>>)

\* Exactly 5000 non-null bytes and two NUL bytes have been read: 5002
\* bytes are consumed.
C4_Witness ==
    /\ ReadCStringReturned
    /\ call.args.txt_offset = 0
    /\ NonNullRun(call.args.data, 0) = StringCap
    /\ TerminatorSize(call.args.data, 0, StringCap) = 2
    /\ call.ret.bytes_read = StringCap + 2
    /\ Len(call.ret.decoded_string) = StringCap

\* C5 as stated: read_C_string never accumulates more than 5000 bytes; on
\* more than 5000 non-null bytes from the offset it stops with 5000 bytes
\* consumed and a text built from exactly 5000 bytes.
C5_AtMostCapAccumulated ==
    ReadCStringReturned =>
        /\ Len(call.ret.result) <= StringCap
        /\ (/\ call.args.txt_offset <= Len(call.args.data)
            /\ NonNullRun(call.args.data, call.args.txt_offset) > StringCap)
              => /\ call.ret.bytes_read = StringCap
                 /\ Len(call.ret.result) = StringCap
                 /\ call.ret.decoded_string
                      = Decoding(Run(call.args.data, call.args.txt_offset, StringCap))

\* An evaluation of the expression p has ended.
Evaluated(p) == vm.done /\ GlobalBuffer.command_data = p

\* C6 as stated: the raw words x and y with x >= y, pushed in that order and
\* followed by a marker byte, the operator code 21 and the terminator,
\* evaluate to x - y; 5 and 3 evaluate to 2.
C6_SubtractionResult ==
    \A x \in VmOperands, y \in VmOperands :
        (x >= y /\ Evaluated(Push(x) \o Push(y) \o <<1, 21, 255>>))
            => (vm.exc = NoExc /\ vm.ret = x - y)

\* C7 as stated: a raw word x and a raw word 0, followed by a marker byte,
\* the operator code 23 and the terminator, evaluate to 0 without an error.
C7_DivisionByZeroResult ==
    \A x \in VmOperands :
        Evaluated(Push(x) \o Push(0) \o <<1, 23, 255>>)
            => (vm.exc = NoExc /\ vm.ret = 0)

\* C8: when the first byte of the expression is 0xFF, execute_vm_code
\* returns 0, has pushed no operand, and has moved the cursor past that one
\* byte only.
C8_EmptyExpression ==
    (vm.done /\ GlobalBuffer.command_data # <<>> /\ GlobalBuffer.command_data[1] = 255) =>
        /\ vm.exc = NoExc
        /\ vm.ret = 0
        /\ vm.pushed = 0
        /\ vm.value_stack = <<>> /\ vm.flag_stack = <<>>
        /\ GlobalBuffer.command_data_offset = 1

\* A terminator with an operand item behind it has been evaluated.
C8_Witness ==
    /\ Evaluated(<<255>> \o Push(5))
    /\ vm.ret = 0
    /\ vm.pushed = 0
    /\ GlobalBuffer.command_data_offset = 1

\* The number of zero bits below the lowest set bit of the pattern p > 0.
TrailingZeros(p) == CHOOSE k \in 0..15 : p % (2 ^ k) = 0 /\ (p \div (2 ^ k)) % 2 = 1

\* The length of the run of set bits that starts at the lowest set bit.
RunLength(p) ==
    LET q == p \div (2 ^ TrailingZeros(p)) IN
    CHOOSE k \in 1..16 : q % (2 ^ k) = (2 ^ k) - 1 /\ (q \div (2 ^ k)) % 2 = 0

\* (V >> s) & (2^w - 1) for the pattern p, 0 for the pattern 0.
FieldOf(V, p) ==
    IF p = 0 THEN 0
    ELSE (V \div (2 ^ TrailingZeros(p))) % (2 ^ RunLength(p))

\* C9: for every table index, every 16-bit pattern with s trailing zero bits
\* followed by a run of w one bits, and the value V the table holds at that
\* index, the extraction returns (V >> s) & (2^w - 1), and 0 for the pattern
\* 0; for the pattern 0b00110000 that is (V >> 4) & 0x3.  _sub_414FE6 has no
\* table: its V is the 0 it is written with.
C9_BitFieldExtraction ==
    /\ (pc = "returned" /\ call.fn = "extract_bit_field") =>
          /\ call.ret = FieldOf(call.args.table_value, call.args.bit_pattern)
          /\ call.args.bit_pattern = 48
                => call.ret = (call.args.table_value \div 16) % 4
    /\ (pc = "returned" /\ call.fn = "_sub_414FE6") =>
          call.ret = FieldOf(word_table[call.args.a1], call.args.a2)

\* The pattern 0b00110000 has been applied to the table value 0b110101.
C9_Witness ==
    /\ pc = "returned"
    /\ call.fn = "extract_bit_field"
    /\ call.args.bit_pattern = 48
    /\ call.args.table_value = 53
    /\ call.ret = 3

\* The index in output of the switch_params line of the switch that the
\* line at index k belongs to.
SwitchOf(k) ==
    CHOOSE j \in 1..k :
        /\ output[j].kind = "switch_params"
        /\ \A i \in (j + 1)..k : output[i].kind # "switch_params"

\* C10: a case of a switch is reported as a match if and only if its value
\* is the transformed switch parameter or 0xFF, and the default target is
\* reported if and only if no case of that switch matched; with a
\* transformed parameter of 7, the case 0xFF matches and the case 5 does not.
C10_SwitchMatches ==
    /\ \A k \in 1..Len(output) :
          /\ output[k].kind = "case" =>
                (output[k].match <=>
                    \/ output[k].value = output[SwitchOf(k)].processed_switch_param
                    \/ output[k].value = 255)
          /\ output[k].kind = "switch_end" =>
                (output[k].default_reported <=>
                    ~\E i \in SwitchOf(k)..k : output[i].kind = "case" /\ output[i].match)
    /\ case_matches(7, 255)
    /\ ~case_matches(7, 5)

\* A switch with the case values 5 and 0xFF has been decoded: only the
\* wildcard matched and the default target was not reported.
C10_Witness ==
    \E k \in 1..Len(output) :
        /\ output[k].kind = "switch_end"
        /\ ~output[k].default_reported
        /\ k = SwitchOf(k) + 3
        /\ output[k - 2].kind = "case" /\ output[k - 2].value = 5 /\ ~output[k - 2].match
        /\ output[k - 1].kind = "case" /\ output[k - 1].value = 255 /\ output[k - 1].match

\* The command segment is the syscall opcode 0x00 followed by the normal
\* opcode 0x04.
MinimalSegment == GlobalBuffer.assigned /\ GlobalBuffer.command_data = <<0, 4>>

\* What the decode of the minimal segment prints.
MinimalOutput ==
    <<[kind |-> "sys_opcode", offset |-> 0, opcode |-> 0,
       handler |-> "_handle_basic_operation"],
      [kind |-> "main_interpreter", offset |-> 0],
      [kind |-> "normal_opcode", offset |-> 1, opcode |-> 4],
      [kind |-> "executing", handler |-> "_handle_newline"]>>

\* C11: the decode of a well-formed file whose command segment is exactly
\* the syscall opcode 0x00 followed by the normal opcode 0x04 ends by running
\* off the command segment with the cursor at its end; 0x04 is dispatched to
\* the handler of a known normal opcode, and neither the unknown-opcode
\* condition nor any other error is raised.
C11_MinimalDecodeRunsOff ==
    MinimalSegment =>
        /\ GlobalBuffer.command_data_offset \in {0, 2}
        /\ result.exc = NoExc
        /\ \A k \in 1..Len(output) : output[k].kind \notin {"unknown_opcode", "normal_error"}
        /\ output = IF GlobalBuffer.command_data_offset = 2 THEN MinimalOutput ELSE <<>>
        /\ pc = "done" =>
              /\ GlobalBuffer.command_data_offset = Len(GlobalBuffer.command_data)
              /\ result.returned
              /\ result.reported = "none"

\* The minimal segment, with a text segment beside it, has been decoded to
\* its end.
C11_Witness ==
    /\ MinimalSegment
    /\ GlobalBuffer.text_data = <<65, 66, 0>>
    /\ pc = "done"
    /\ GlobalBuffer.command_data_offset = 2
    /\ output = MinimalOutput

\* The lines printed by the latest pass through the loop of
\* process_sys_calls end the output: a string line is its last line, or the
\* last but one when _handle_audio_operation adds its own.
Latest(k) == k \in 1..Len(output) /\ k >= Len(output) - 1

\* The name the cache nc resolves an empty string at text offset o to: the
\* entry at o, else the last saved name, else the empty string.
NameResolution(nc, o) ==
    IF o \in DOMAIN nc.cache THEN nc.cache[o]
    ELSE IF nc.last_saved_name # <<>> THEN nc.last_saved_name
    ELSE <<>>

\* C12 as stated: when a string opcode decodes an empty string and name
\* resolution is requested (get_string_flag = 1), the resolved text is the
\* NameCache entry at that offset, else the most recently cached name, else
\* the empty string.
C12_EmptyStringResolvesName ==
    \A k \in 1..Len(output) :
        (/\ Latest(k)
         /\ output[k].kind = "string"
         /\ output[k].get_string_flag = 1
         /\ output[k].string = <<>>)
            => output[k].actual_string = NameResolution(name_cache, output[k].text_offset)

\* Every cached name and every non-empty last saved name is enclosed in the
\* brackets, and the last saved name is the entry at its offset.
BracketNames ==
    /\ \A o \in DOMAIN name_cache.cache : is_japanese_name_bracket(name_cache.cache[o])
    /\ name_cache.last_saved_name # <<>> =>
          /\ is_japanese_name_bracket(name_cache.last_saved_name)
          /\ name_cache.last_saved_name_offset \in DOMAIN name_cache.cache
          /\ name_cache.cache[name_cache.last_saved_name_offset] = name_cache.last_saved_name

\* The lines a step adds to the output.
NewLines == SubSeq(output', Len(output) + 1, Len(output'))

\* A step changes the NameCache exactly when one of the string opcodes 0x00
\* and 0x01 has decoded a bracket-enclosed string in it, and then by that
\* string at its text offset.
CachingStep ==
    LET decoded == {k \in 1..Len(NewLines) :
                       NewLines[k].kind = "string" /\ NewLines[k].resolved = "decoded"}
        names   == {k \in decoded : is_japanese_name_bracket(NewLines[k].string)}
    IN  IF names # {}
        THEN \E k \in names :
                name_cache' = [cache |-> (NewLines[k].text_offset :> NewLines[k].string)
                                         @@ name_cache.cache,
                               last_saved_name |-> NewLines[k].string,
                               last_saved_name_offset |-> NewLines[k].text_offset]
        ELSE name_cache' = name_cache

\* C13 as stated: after any string-bearing opcode (0x8A, 0x6E, 0xD7, 0x09 and
\* 0x6C as well as 0x00 and 0x01) has decoded a non-empty bracket-enclosed
\* string s at text offset o, the NameCache maps o to s and the last saved
\* name is (s, o).
C13_AnyStringOpcodeCaches ==
    \A k \in 1..Len(output) :
        (/\ Latest(k)
         /\ output[k].kind \in {"string", "string_operand"}
         /\ output[k].string # <<>>
         /\ is_japanese_name_bracket(output[k].string))
            => /\ output[k].text_offset \in DOMAIN name_cache.cache
               /\ name_cache.cache[output[k].text_offset] = output[k].string
               /\ name_cache.last_saved_name = output[k].string
               /\ name_cache.last_saved_name_offset = output[k].text_offset

\* C13: after one of the string opcodes 0x00 and 0x01 has decoded a string s
\* at text offset o: if s starts with the opening and ends with the closing
\* bracket, the NameCache maps o to s and the last saved name is (s, o);
\* otherwise, and after every other opcode, the string-bearing opcodes 0x8A,
\* 0x6E, 0xD7, 0x09 and 0x6C included, the NameCache and the last saved name
\* are unchanged.  Hence every NameCache entry and every non-empty last saved
\* name is a bracket-enclosed string.
C13_StringOpcodesCacheBracketNames ==
    /\ []BracketNames
    /\ [][CachingStep]_vars

\* The name at text offset 0 has been cached by the string opcode 0x00, and a
\* later opcode 0x01 has decoded it again.
C13_Witness ==
    /\ name_cache.cache = (0 :> <<12304, 65, 12305>>)
    /\ name_cache.last_saved_name = <<12304, 65, 12305>>
    /\ name_cache.last_saved_name_offset = 0
    /\ Len(output) = 8
    /\ output[4].kind = "string" /\ output[4].get_string_flag = 0
    /\ output[8].kind = "string" /\ output[8].get_string_flag = 1

\* C14: for every byte stream, the value an evaluation of execute_vm_code
\* returns is an integer in 0..65535, and so is every value on its stack
\* while it runs.
C14_ResultIsSixteenBit ==
    /\ \A i \in 1..Len(vm.value_stack) : vm.value_stack[i] \in 0..65535
    /\ (vm.done /\ vm.exc = NoExc) => vm.ret \in 0..65535

\* The sum of the largest word with itself has been evaluated: the largest
\* word is returned.
C14_Witness ==
    /\ Evaluated(Push(65535) \o Push(65535) \o <<1, 20, 255>>)
    /\ vm.exc = NoExc
    /\ vm.ret = 65535

\* The syscall opcode bytes that have a handler.
HandledSyscalls == {0, 4, 5, 8, 9, 10, 11, 12, 13, 16, 17, 18}

\* The lines _process_basic_opcode and _process_extended_opcode print for an
\* opcode without a handler.
UnhandledReports == {"unhandled_opcode", "unknown_adjusted_opcode"}

\* C15: every syscall opcode byte without a handler is reported as
\* unhandled, and only such a byte is; exactly that one byte is consumed, no
\* error ends the decode, and the next byte, if there is one, is the next
\* one dispatched as a syscall opcode.
C15_UnhandledSyscallSkipped ==
    \A k \in 1..Len(output) :
        /\ (output[k].kind = "sys_opcode" /\ output[k].opcode \notin HandledSyscalls) =>
              /\ k < Len(output)
              /\ output[k + 1].kind \in UnhandledReports
              /\ output[k + 1].offset = output[k].offset
              /\ IF k + 1 = Len(output)
                 THEN /\ result.exc = NoExc
                      /\ GlobalBuffer.command_data_offset = output[k].offset + 1
                      /\ pc = "done" =>
                            GlobalBuffer.command_data_offset = Len(GlobalBuffer.command_data)
                 ELSE /\ output[k + 2].kind = "sys_opcode"
                      /\ output[k + 2].offset = output[k].offset + 1
        /\ output[k].kind \in UnhandledReports =>
              /\ k > 1
              /\ output[k - 1].kind = "sys_opcode"
              /\ output[k - 1].opcode \notin HandledSyscalls

\* The byte 0x0E, which has no handler, was reported and the byte after it
\* dispatched; the byte 0x01, which has none either, was reported next.
C15_Witness ==
    /\ Len(output) = 4
    /\ output[1].kind = "sys_opcode" /\ output[1].opcode = 14
    /\ output[2].kind = "unknown_adjusted_opcode"
    /\ output[3].kind = "sys_opcode" /\ output[3].opcode = 1 /\ output[3].offset = 1
    /\ output[4].kind = "unhandled_opcode"
    /\ GlobalBuffer.command_data_offset = 2

\* The index in output of the line that opens the audio operation whose
\* closing line is at index k.
AudioStart(k) ==
    CHOOSE j \in 1..k :
        /\ output[j].kind = "audio_operation"
        /\ \A i \in (j + 1)..k : output[i].kind # "audio_operation"

\* What happened in the call of process_single_command whose status the
\* audio_op line at index k prints: nothing was read, the opcode read had no
\* handler, its handler raised, or its handler returned.
Outcome(k) ==
    LET lines == (AudioStart(k) + 1)..(k - 1) IN
    IF lines = {} THEN "end_of_stream"
    ELSE IF \E i \in lines : output[i].kind = "unknown_opcode" THEN "unknown_opcode"
    ELSE IF \E i \in lines : output[i].kind = "normal_error" THEN "handler_error"
    ELSE "processed"

\* What process_single_command returns with the cursor at the end of the
\* command data.
EndOfStreamStatus ==
    process_single_command(
        [GlobalBuffer EXCEPT !.command_data_offset = Len(GlobalBuffer.command_data)],
        name_cache).status

\* C16 as stated: the status of process_single_command tells three cases
\* apart, a known opcode processed, the end of the stream, and an unknown
\* opcode; the status for an unknown opcode is never the status for the end
\* of the stream.
C16_UnknownDiffersFromEndOfStream ==
    \A k \in 1..Len(output) :
        output[k].kind = "audio_op" =>
            /\ Outcome(k) = "unknown_opcode" => output[k].jump_result # EndOfStreamStatus
            /\ Outcome(k) = "processed" => output[k].jump_result # EndOfStreamStatus

\* C16: process_single_command returns 0 when the handler of a known opcode
\* has returned, and -1 in every other case: at the end of the stream, for
\* an opcode without a handler, and when a handler raised.  An unknown opcode
\* and the end of the stream give the same status and differ only in what
\* is printed.
C16_StatusIsZeroOrMinusOne ==
    /\ EndOfStreamStatus = -1
    /\ \A k \in 1..Len(output) :
          output[k].kind = "audio_op" =>
              output[k].jump_result = IF Outcome(k) = "processed" THEN 0 ELSE -1

\* An audio operation has been decoded whose command byte, 0x03, is no
\* normal opcode: the status printed is -1.
C16_Witness ==
    \E k \in 1..Len(output) :
        /\ output[k].kind = "audio_op"
        /\ Outcome(k) = "unknown_opcode"
        /\ output[k - 2].kind = "unknown_opcode" /\ output[k - 2].opcode = 3
        /\ output[k].jump_result = -1

\* C17 as stated: once process_single_command has met an opcode byte that is
\* not in its table, no later byte of command_data is dispatched as an
\* opcode, neither by process_sys_calls nor by process_single_command.
C17_UnknownNormalOpcodeAborts ==
    \A k \in 1..Len(output) :
        output[k].kind = "unknown_opcode" =>
            \A j \in (k + 1)..Len(output) :
                output[j].kind \notin {"sys_opcode", "normal_opcode"}

\* The messages of the two header validation failures.
HeaderErrors ==
    {"File too small to contain valid header", "File size is smaller than required"}

\* After a header validation failure disassemble has returned with the
\* failure reported, nothing was dispatched, and GlobalBuffer is as it was
\* before the call.
StoppedAtHeader ==
    result.message \in HeaderErrors =>
        /\ pc = "done"
        /\ result.returned
        /\ result.reported = "Disassembly error"
        /\ output = <<>>
        /\ GlobalBuffer = GlobalBuffer_init

\* The step in which header validation fails ends the call and changes
\* neither the buffers, nor the cursor, nor the output.
HeaderFailureStep ==
    (result'.message \in HeaderErrors /\ result.message \notin HeaderErrors) =>
        /\ pc' = "done"
        /\ GlobalBuffer' = GlobalBuffer
        /\ output' = output
        /\ name_cache' = name_cache

\* C18: when header validation fails, because the file is too small or
\* because it is shorter than its header declares, the decode stops at once:
\* no byte is dispatched as an opcode, and the command buffer, the text
\* buffer and the cursor keep the values they had before the call.
C18_HeaderFailureStopsDecode ==
    /\ []StoppedAtHeader
    /\ [][HeaderFailureStep]_vars

\* A file that declares two command bytes and holds one byte after its
\* header has been refused.
C18_Witness ==
    /\ pc = "done"
    /\ result.message = "File size is smaller than required"
    /\ Len(data) = 13
    /\ Declared(4) = 0 /\ Declared(6) = 2 /\ Declared(8) = 0
    /\ GlobalBuffer = GlobalBuffer_init
    /\ output = <<>>

\* The loop of process_sys_calls is about to read the opcode 0x12.
AtConditionalSkip ==
    /\ pc = "process_sys_calls"
    /\ GlobalBuffer.command_data_offset < Len(GlobalBuffer.command_data)
    /\ GlobalBuffer.command_data[GlobalBuffer.command_data_offset + 1] = 18

\* The step of the conditional-skip handler: with the cursor after one
\* evaluation at `after`, a result of 0 moves it past the two bytes of the
\* skip target, which is printed (or ends the decode with the handler's
\* error when fewer than two bytes are left), and any other result leaves it
\* at `after`.
ConditionalSkipStep ==
    AtConditionalSkip =>
        LET condition == execute_vm_code(after_opcode(GlobalBuffer))
            after     == condition.gb.command_data_offset
            cd        == GlobalBuffer.command_data
        IN  condition.exc = NoExc =>
              /\ GlobalBuffer'.command_data = cd
              /\ IF condition.ret # 0
                 THEN /\ GlobalBuffer'.command_data_offset = after
                      /\ pc' = pc
                      /\ Last(output').kind = "sys_opcode"
                 ELSE IF after + 2 <= Len(cd)
                 THEN /\ GlobalBuffer'.command_data_offset = after + 2
                      /\ pc' = pc
                      /\ Last(output').kind = "conditional_skip"
                      /\ Last(output').jump_target = cd[after + 1] + 256 * cd[after + 2]
                 ELSE /\ GlobalBuffer'.command_data_offset = after
                      /\ pc' = "done"
                      /\ result'.exc = "SysCallOpcodeDisassemblerError"

\* C19: the handler of the syscall opcode 0x12 evaluates exactly one
\* expression; it consumes the 16-bit skip target that follows if and only
\* if the result is 0; in both cases the cursor ends right after the last
\* byte consumed and is never set to the skip target.
C19_ConditionalSkipConsumesTargetIffZero == [][ConditionalSkipStep]_vars

\* The expression "raw word 0" evaluated to 0 and the target 300 behind it
\* was consumed: the cursor is at 8, not at 300.
C19_Witness ==
    /\ pc = "process_sys_calls"
    /\ Len(GlobalBuffer.command_data) > 8
    /\ SubSeq(GlobalBuffer.command_data, 1, 8) = <<18>> \o Push(0) \o <<255>> \o Word(300)
    /\ Len(output) = 2
    /\ output[2].kind = "conditional_skip"
    /\ output[2].condition = 0
    /\ output[2].jump_target = 300
    /\ GlobalBuffer.command_data_offset = 8

\* One pass through the while loop of process_sys_calls moves the cursor
\* forward by at least one byte, within command_data; the loop ends because
\* the cursor has reached the end of command_data or because an error ended
\* it.
OuterLoopStep ==
    pc = "process_sys_calls" =>
        \/ /\ pc' = "process_sys_calls"
           /\ result' = result
           /\ GlobalBuffer'.command_data = GlobalBuffer.command_data
           /\ GlobalBuffer'.command_data_offset > GlobalBuffer.command_data_offset
           /\ GlobalBuffer'.command_data_offset <= Len(GlobalBuffer.command_data)
        \/ /\ pc' = "done"
           /\ result'.exc # NoExc
           /\ GlobalBuffer'.command_data_offset > GlobalBuffer.command_data_offset
           /\ GlobalBuffer'.command_data_offset <= Len(GlobalBuffer.command_data)
        \/ /\ pc' = "done"
           /\ result'.exc = NoExc
           /\ result'.returned
           /\ GlobalBuffer' = GlobalBuffer
           /\ GlobalBuffer.command_data_offset >= Len(GlobalBuffer.command_data)

\* From any position of the cursor an evaluation of execute_vm_code ends
\* within as many loop passes as bytes remain, and two more; from any text
\* offset the loop of read_C_string has ended after as many passes as bytes
\* remain.
InnerLoopsEnd ==
    pc = "process_sys_calls" =>
        /\ vm_run_within(vm_entry(GlobalBuffer),
                         Len(GlobalBuffer.command_data)
                             - GlobalBuffer.command_data_offset + 2).done
        /\ \A o \in 0..Len(GlobalBuffer.text_data) :
              LET st == read_C_string_loop(GlobalBuffer.text_data,
                            [current_offset |-> o, result |-> <<>>, stopped |-> FALSE],
                            Len(GlobalBuffer.text_data) - o)
              IN  st.stopped \/ st.current_offset >= Len(GlobalBuffer.text_data)

\* C20: for every command segment and text segment the decode terminates:
\* disassemble returns; the outer loop ends because the cursor has reached
\* the end of command_data or because an error stopped it, each of its
\* passes advances the cursor by at least one byte, and the inner loops
\* (expression evaluation, string read, and the case scan, padding skip and
\* jump-target lookup evaluated within each step) end; before it has
\* returned the call always has a next statement to run.
C20_DecodeTerminates ==
    /\ <>(pc = "done")
    /\ []CanGoOn
    /\ [][OuterLoopStep]_vars
    /\ []InnerLoopsEnd

\* A scenario load whose padding skip ran over two zero bytes and the byte
\* behind them has been decoded to the end of the command data.
C20_Witness ==
    /\ pc = "done"
    /\ result.returned
    /\ GlobalBuffer.command_data = <<10, 255, 0, 0, 13>>
    /\ GlobalBuffer.command_data_offset = 5
    /\ Len(output) = 2
    /\ output[2].kind = "load_scenario"

\* C21: at the start of every call of disassemble, also a later call on the
\* same Disassembler object, the NameCache has no entries and no last saved
\* name.
C21_CacheEmptyAtCallStart ==
    pc = "read_file" => name_cache = NameCache_init

\* The command and text segments of the file a call has read.
OwnSegments(d, h) == setup_global_buffers(d, h, GlobalBuffer_init).gb

\* A call that is decoding reads the bytes of its own file.
DecodesOwnFile ==
    pc = "process_sys_calls" =>
        /\ GlobalBuffer.command_data = OwnSegments(data, header).command_data
        /\ GlobalBuffer.text_data = OwnSegments(data, header).text_data

\* A step of the running call leaves alone the cursor and the buffers of
\* the other call, once that call has set them up.
StepOfOneCall ==
    (call' = call /\ call.pc = "process_sys_calls") => GlobalBuffer' = GlobalBuffer

\* C22: when two calls of disassemble on two Disassembler objects are in
\* flight and their steps interleave, a step of one never changes the
\* cursor or the buffers read by the other, and each call decodes exactly
\* the bytes of its own file.
C22_CallsHaveTheirOwnBuffers ==
    /\ []DecodesOwnFile
    /\ [][StepOfOneCall]_vars

\* C23 as stated: when the operator code 24 is applied with a divisor 0 (a
\* raw word x and a raw word 0, a marker byte, the code 24, the terminator),
\* a modulo-by-zero condition is reported and the evaluation continues to
\* its end without an error.
C23_ModuloByZeroReported ==
    \A x \in VmOperands :
        Evaluated(Push(x) \o Push(0) \o <<1, 24, 255>>)
            => (vm.exc = NoExc /\ vm.reported # <<>>)

\* C24 as stated: at every point of an expression evaluation value_stack
\* and flag_stack (the accumulator stack) have the same length, for every
\* byte stream.
C24_StacksSameLength ==
    pc = "execute_vm_code" => Len(vm.value_stack) = Len(vm.flag_stack)

\* C25 as stated: whenever at least one operand was pushed before the 0xFF
\* terminator, the stack the result is taken from is non-empty when the
\* evaluation returns and the result is its bottom element; the default 0
\* of an empty stack is returned only when no operand was pushed.
C25_DefaultOnlyWithoutOperands ==
    (pc = "execute_vm_code" /\ vm.done /\ vm.exc = NoExc /\ vm.pushed >= 1) =>
        /\ vm.value_stack # <<>>
        /\ vm.ret = vm.value_stack[1]

\* The value of the operand item at offset o of the command data: the word
\* when the index byte is 0xFF, otherwise the bit field extracted through
\* the index, masked to 16 bits.
OperandValue(d, o) ==
    LET index == d[o + 2]
        word  == d[o + 3] + 256 * d[o + 4]
    IN  IF index = 255 THEN BitAnd(word, 65535)
        ELSE BitAnd(extract_bit_field(index, word), 65535)

\* A pass of the operand phase that reads a byte 0 with three more bytes
\* behind it moves the cursor by four and appends the operand value to
\* value_stack and to flag_stack.
OperandPush ==
    (/\ pc = "execute_vm_code" /\ ~vm.done /\ vm.phase = "operand"
     /\ GlobalBuffer.command_data_offset + 4 <= Len(GlobalBuffer.command_data)
     /\ GlobalBuffer.command_data[GlobalBuffer.command_data_offset + 1] = 0)
        => LET v == OperandValue(GlobalBuffer.command_data,
                                 GlobalBuffer.command_data_offset)
           IN  /\ GlobalBuffer'.command_data_offset = GlobalBuffer.command_data_offset + 4
               /\ vm'.value_stack = Append(vm.value_stack, v)
               /\ vm'.flag_stack = Append(vm.flag_stack, v)

\* C26 as stated: in the operand phase each byte 0 makes the VM consume
\* exactly three more bytes and push one value onto both stacks, the word
\* itself when the index byte is 0xFF and otherwise the extracted bit
\* field, masked to 16 bits; the value pushed onto the accumulator stack
\* equals the value pushed onto value_stack.
C26_OperandPushedOnBothStacks == [][OperandPush]_vars

\* Each reader moves the cursor by the bytes it has read, one for a byte and
\* two for a word, or leaves it when the data has run out.
ReaderAdvances(after, n) ==
    /\ after.gb.command_data = GlobalBuffer.command_data
    /\ after.gb.command_data_offset
         = GlobalBuffer.command_data_offset + (IF after.value = None THEN 0 ELSE n)

ReadersAdvance ==
    pc = "process_sys_calls" =>
        /\ ReaderAdvances(get_next_byte(GlobalBuffer), 1)
        /\ ReaderAdvances(get_next_word(GlobalBuffer), 2)
        /\ ReaderAdvances(sys_get_next_byte(GlobalBuffer), 1)
        /\ ReaderAdvances(sys_get_next_word(GlobalBuffer), 2)
        /\ read_next_byte(GlobalBuffer).gb.command_data_offset
             \in {GlobalBuffer.command_data_offset, GlobalBuffer.command_data_offset + 1}

\* The jump targets printed by the instruction decoded in this step.
NewTargets ==
    {output'[k].jump_target :
        k \in {j \in (Len(output) + 1)..Len(output') :
                  output'[j].kind \in {"simple_jump", "conditional_skip"}}}

\* A step of the decode leaves the command data alone and moves the cursor
\* forward, never past the end; a simple jump moves it over its opcode and
\* its target word, and a target that lies behind the cursor is not where
\* the cursor goes.
CursorStep ==
    pc = "process_sys_calls" =>
        /\ GlobalBuffer'.command_data = GlobalBuffer.command_data
        /\ GlobalBuffer'.command_data_offset >= GlobalBuffer.command_data_offset
        /\ GlobalBuffer'.command_data_offset <= Len(GlobalBuffer.command_data)
        /\ (/\ GlobalBuffer.command_data_offset + 3 <= Len(GlobalBuffer.command_data)
            /\ GlobalBuffer.command_data[GlobalBuffer.command_data_offset + 1] = 8)
              => GlobalBuffer'.command_data_offset = GlobalBuffer.command_data_offset + 3
        /\ \A t \in NewTargets :
              t <= GlobalBuffer.command_data_offset
                  => GlobalBuffer'.command_data_offset # t

\* C27: during a decode the cursor never decreases and is never assigned a
\* jump target: every change of the cursor is an advance by the bytes just
\* read, one for a byte and two for a word, so the bytes of command_data
\* are consumed in increasing order of offset, each at most once.
C27_CursorOnlyAdvances ==
    /\ []ReadersAdvance
    /\ [][CursorStep]_vars

\* A simple jump to offset 0 has been decoded at offset 0, and the decode
\* has gone on with the byte behind it.
C27_Witness ==
    /\ pc = "done"
    /\ GlobalBuffer.command_data = <<8, 0, 0, 13>>
    /\ GlobalBuffer.command_data_offset = 4
    /\ Len(output) = 4
    /\ output[2].kind = "simple_jump" /\ output[2].jump_target = 0
    /\ output[4].kind = "return" /\ output[4].offset = 3

\* The cursor is at a switch opcode whose count byte and case entries all
\* lie within the command data.
AtWholeSwitch ==
    /\ pc = "process_sys_calls"
    /\ GlobalBuffer.command_data_offset + 7 <= Len(GlobalBuffer.command_data)
    /\ GlobalBuffer.command_data[GlobalBuffer.command_data_offset + 1] = 9
    /\ GlobalBuffer.command_data_offset + 7
         + 3 * GlobalBuffer.command_data[GlobalBuffer.command_data_offset + 7]
           <= Len(GlobalBuffer.command_data)

\* The lines printed for the cases of the switch decoded in this step.
NewCases == {k \in (Len(output) + 1)..Len(output') : output'[k].kind = "case"}

\* Decoding a whole switch consumes the 6 operand bytes and 3 bytes per
\* case, prints one line per case, and marks as a match every case whose
\* value byte is 0xFF or the transformed parameter.
SwitchStep ==
    AtWholeSwitch =>
        LET o          == GlobalBuffer.command_data_offset
            d          == GlobalBuffer.command_data
            case_count == d[o + 7]
            param      == sub_414FE6(d[o + 2], d[o + 3] + 256 * d[o + 4])
        IN  /\ GlobalBuffer'.command_data_offset = o + 1 + 6 + 3 * case_count
            /\ Cardinality(NewCases) = case_count
            /\ \A i \in 0..(case_count - 1) :
                  \E k \in NewCases :
                      /\ output'[k].i = i
                      /\ output'[k].value = d[o + 8 + 3 * i]
                      /\ output'[k].target = d[o + 9 + 3 * i] + 256 * d[o + 10 + 3 * i]
                      /\ output'[k].match <=> (d[o + 8 + 3 * i] \in {255, param})

\* C28: the switch handler reads all case_count entries whatever matches
\* occur: when enough bytes remain it consumes exactly 6 + 3 * case_count
\* bytes after the opcode byte, and it reports every matching case, not
\* only the first.
C28_SwitchReadsEveryCase == [][SwitchStep]_vars

\* A switch whose two cases both match has been decoded: both are reported
\* as matches and the cursor is behind the second.
C28_Witness ==
    \E k \in 1..Len(output) :
        /\ output[k].kind = "switch_end"
        /\ k = SwitchOf(k) + 3
        /\ output[k - 2].kind = "case" /\ output[k - 2].value = 0 /\ output[k - 2].match
        /\ output[k - 1].kind = "case" /\ output[k - 1].value = 255 /\ output[k - 1].match
        /\ output[k].offset = 0
        /\ GlobalBuffer.command_data_offset >= 13

\* The syscall opcode in whose handler the line at index k of the output
\* was printed.
SysOpcodeOf(k) ==
    LET j == CHOOSE j \in 1..k :
                 /\ output[j].kind = "sys_opcode"
                 /\ \A i \in (j + 1)..k : output[i].kind # "sys_opcode"
    IN  output[j].opcode

\* The syscall opcodes under which a byte was handed to the normal opcode
\* dispatcher.
DispatchingSyscalls ==
    {SysOpcodeOf(k) : k \in {j \in 1..Len(output) : output[j].kind = "normal_opcode"}}

\* C29 as stated: a byte of command_data is decoded as a normal opcode only
\* when the syscall opcode just processed is the base opcode 0x00; no other
\* syscall handler invokes the normal opcode dispatcher.
C29_OnlyBaseOpcodeDispatches == DispatchingSyscalls \subseteq {0}

\* C29, amended: a byte of command_data is decoded as a normal opcode only
\* in the handler of the base opcode 0x00 or, behind its parameter byte and
\* id word, in the handler of the audio operation 0x05; no other syscall
\* handler invokes the normal opcode dispatcher.
C29_BaseAndAudioDispatch == DispatchingSyscalls \subseteq {0, 5}

\* The audio operation has handed the byte 0x04 behind its operands to the
\* normal opcode dispatcher, and in the same decode the base opcode has
\* dispatched one too.
C29_Witness ==
    /\ Len(output) >= 7
    /\ output[1].kind = "sys_opcode" /\ output[1].opcode = 5
    /\ output[3].kind = "normal_opcode" /\ output[3].offset = 4 /\ output[3].opcode = 4
    /\ \E k \in 5..Len(output) : output[k].kind = "normal_opcode" /\ SysOpcodeOf(k) = 0

\* The cursor is at a syscall opcode whose handler starts by evaluating an
\* expression, and no terminator byte lies behind the opcode: the
\* evaluation has to read past the end of the command data.
AtExpressionWithoutTerminator ==
    /\ pc = "process_sys_calls"
    /\ GlobalBuffer.command_data_offset < Len(GlobalBuffer.command_data)
    /\ GlobalBuffer.command_data[GlobalBuffer.command_data_offset + 1] \in {10, 11, 12, 16, 18}
    /\ \A k \in (GlobalBuffer.command_data_offset + 2)..Len(GlobalBuffer.command_data) :
          GlobalBuffer.command_data[k] # 255

\* Such an instruction ends the decode with an error and prints no line of
\* its own.
ReadPastEndStep ==
    AtExpressionWithoutTerminator =>
        /\ pc' = "done"
        /\ result'.exc # NoExc
        /\ Len(output') = Len(output) + 1

\* C30 as stated, for the reads of the Expression VM inside a syscall
\* handler: a read of a byte past the end of command_data in the middle of
\* an instruction gives an error outcome, and no substitute value lets the
\* instruction complete as if the data had been present.
C30_ReadPastEndIsAnError == [][ReadPastEndStep]_vars

\* C31: with the tables unpopulated the stubbed helpers return 0 for every
\* input: extract_bit_field for every table index and 16-bit pattern,
\* sub_42164D for every condition value; so the transformed switch
\* parameter, the result of _sub_414FE6, is 0, and an operand whose index
\* byte is not 0xFF is pushed as 0.
C31_StubbedHelpersReturnZero ==
    pc = "returned" =>
        /\ (call.fn = "extract_bit_field" /\ call.args.table_value = 0) => call.ret = 0
        /\ call.fn = "_sub_414FE6" => call.ret = 0
        /\ call.fn = "sub_42164D" => call.ret = 0
        /\ (call.fn = "read_processed_value" /\ call.args.table_index # 255) =>
              /\ call.ret.exc = NoExc
              /\ call.ret.value = 0
              /\ call.ret.gb.command_data_offset = 3

\* An operand item with the index byte 7 and the pattern 0b00110000 has
\* been read as the value 0.
C31_Witness ==
    /\ pc = "returned"
    /\ call.fn = "read_processed_value"
    /\ call.args.table_index = 7
    /\ call.args.bit_pattern = 48
    /\ call.ret.value = 0

\* The bytes of command_data from the cursor on.
Remaining == Len(GlobalBuffer.command_data) - GlobalBuffer.command_data_offset

\* A reader of n bytes called at the cursor: with n bytes remaining it
\* returns them and moves the cursor by n; otherwise it returns its failure
\* value and leaves the buffer as it is.
GuardedRead(read, n, failure) ==
    IF Remaining >= n
    THEN /\ read.gb = [GlobalBuffer EXCEPT !.command_data_offset = @ + n]
         /\ read.value = GlobalBuffer.command_data[GlobalBuffer.command_data_offset + 1]
                         + (IF n = 2
                            THEN 256 * GlobalBuffer.command_data[
                                           GlobalBuffer.command_data_offset + 2]
                            ELSE 0)
    ELSE /\ read.gb = GlobalBuffer
         /\ read.value = failure

\* C32: in every reachable state of a decode 0 <= cursor <= len(command_data);
\* each of the three byte readers advances the cursor only when at least one
\* byte remains, each of the two word readers only when at least two remain,
\* and a failed read leaves the cursor unchanged.
C32_CursorWithinCommandData ==
    (pc \in {"process_sys_calls", "done"} /\ GlobalBuffer.assigned) =>
        /\ 0 <= GlobalBuffer.command_data_offset
        /\ GlobalBuffer.command_data_offset <= Len(GlobalBuffer.command_data)
        /\ GuardedRead(get_next_byte(GlobalBuffer), 1, None)
        /\ GuardedRead(sys_get_next_byte(GlobalBuffer), 1, None)
        /\ GuardedRead(read_next_byte(GlobalBuffer), 1, 255)
        /\ GuardedRead(get_next_word(GlobalBuffer), 2, None)
        /\ GuardedRead(sys_get_next_word(GlobalBuffer), 2, None)

\* The decode has stopped with exactly one byte left behind the cursor, on
\* a word read that failed: the cursor stays in front of that byte.
C32_Witness ==
    /\ pc = "done"
    /\ result.exc = "SysCallOpcodeDisassemblerError"
    /\ GlobalBuffer.command_data = <<8, 0>>
    /\ GlobalBuffer.command_data_offset = 1

\* From every offset within the text segment a read_C_string that returns
\* has consumed at least one byte.
ReadsAtLeastOneByte ==
    \A o \in 0..(Len(GlobalBuffer.text_data) - 1) :
        LET read == read_C_string(GlobalBuffer.text_data, o) IN
        read.exc = NoExc => read.bytes_read >= 1

\* Every string line of the output reports a length of at least 1 and the
\* string as it was decoded, not a cached name.
NoNameSubstituted ==
    \A k \in 1..Len(output) :
        output[k].kind = "string" =>
            /\ output[k].length >= 1
            /\ output[k].resolved = "decoded"
            /\ output[k].actual_string = output[k].string

\* C33: for every text segment and every text offset smaller than
\* len(text_data), read_C_string reports at least one byte consumed, so in
\* the handler of the string opcodes 0x00 and 0x01 the condition of the
\* name-resolution fallback (length 0 with the name flag set) never holds
\* and a cached name is never substituted.
C33_NameFallbackNeverTaken ==
    GlobalBuffer.assigned => (ReadsAtLeastOneByte /\ NoNameSubstituted)

\* With the name 【A】 cached from offset 0, the opcode 0x01 has decoded the
\* empty string at offset 5 with the name flag set: two bytes consumed, the
\* empty string kept.
C33_Witness ==
    /\ Len(output) >= 8
    /\ name_cache.last_saved_name # <<>>
    /\ output[8].kind = "string"
    /\ output[8].text_offset = 5
    /\ output[8].get_string_flag = 1
    /\ output[8].length = 2
    /\ output[8].actual_string = <<>>

\* The number of 0x00 bytes of d from offset o on, up to the first non-zero
\* byte or the end.
ZeroRun(d, o) ==
    LET nonzero == {k \in (o + 1)..Len(d) : d[k] # 0} IN
    IF nonzero = {} THEN Len(d) - o
    ELSE (CHOOSE k \in nonzero : \A j \in nonzero : k <= j) - 1 - o

\* The cursor is at a scenario-load opcode whose expression evaluates.
AtScenarioLoad ==
    /\ pc = "process_sys_calls"
    /\ GlobalBuffer.command_data_offset < Len(GlobalBuffer.command_data)
    /\ GlobalBuffer.command_data[GlobalBuffer.command_data_offset + 1] = 10
    /\ execute_vm_code(after_opcode(GlobalBuffer)).exc = NoExc

\* The step of a scenario load leaves the cursor behind the zero bytes that
\* follow the expression and behind the first non-zero byte after them, or
\* at the end of the data when there is none; the decode goes on.
ScenarioLoadStep ==
    AtScenarioLoad =>
        LET d == GlobalBuffer.command_data
            o == execute_vm_code(after_opcode(GlobalBuffer)).gb.command_data_offset
        IN  /\ GlobalBuffer'.command_data_offset
                 = Min(o + ZeroRun(d, o) + 1, Len(d))
            /\ pc' = "process_sys_calls"
            /\ Len(output') = Len(output) + 2

\* The syscall opcodes dispatched so far are at offsets the scenario loads
\* before them have not consumed: no line of the output is for an offset
\* within the bytes a load took.
LoadedBytesNotDispatched ==
    \A k \in 1..Len(output) :
        (output[k].kind = "sys_opcode" /\ output[k].opcode = 10
            /\ k + 1 <= Len(output) /\ output[k + 1].kind = "load_scenario") =>
            LET d     == GlobalBuffer.command_data
                o     == execute_vm_code(
                             [GlobalBuffer EXCEPT
                                 !.command_data_offset = output[k].offset + 1]
                         ).gb.command_data_offset
                taken == Min(o + ZeroRun(d, o) + 1, Len(d))
            IN  \A j \in (k + 2)..Len(output) :
                    output[j].kind = "sys_opcode" => output[j].offset >= taken
                /\ (k + 2 <= Len(output) => output[k + 2].offset = taken)

AtReturnOrEnd ==
    /\ pc = "process_sys_calls"
    /\ GlobalBuffer.command_data_offset < Len(GlobalBuffer.command_data)
    /\ GlobalBuffer.command_data[GlobalBuffer.command_data_offset + 1] \in {13, 17}

\* The step of a return or an end-processing opcode takes the opcode byte
\* only, raises nothing and leaves the outer loop running.
ReturnOrEndStep ==
    AtReturnOrEnd =>
        /\ GlobalBuffer'.command_data_offset = GlobalBuffer.command_data_offset + 1
        /\ pc' = "process_sys_calls"
        /\ result' = result
        /\ Len(output') = Len(output) + 2
        /\ output'[Len(output')].kind =
               IF GlobalBuffer.command_data[GlobalBuffer.command_data_offset + 1] = 13
               THEN "return" ELSE "end_processing"

\* What follows the line of a return or an end-processing opcode is the
\* dispatch of the byte behind the opcode; when nothing follows and the
\* decode is over, the opcode was the last byte of the data.
ByteBehindIsDispatched ==
    \A k \in 1..Len(output) :
        output[k].kind \in {"return", "end_processing"} =>
            IF k < Len(output)
            THEN /\ output[k + 1].kind = "sys_opcode"
                 /\ output[k + 1].offset = output[k].offset + 1
                 /\ output[k + 1].opcode =
                        GlobalBuffer.command_data[output[k].offset + 2]
            ELSE /\ GlobalBuffer.command_data_offset = output[k].offset + 1
                 /\ pc = "done" =>
                        output[k].offset + 1 = Len(GlobalBuffer.command_data)

\* The outer loop is left at the end of the data or on an error.
StopsAtEndOrError ==
    (pc = "done" /\ GlobalBuffer.assigned) =>
        \/ GlobalBuffer.command_data_offset >= Len(GlobalBuffer.command_data)
        \/ result.exc # NoExc

\* C35: the end-processing (0x11) and return (0x0D) handlers consume no byte
\* beyond the opcode and do not stop the outer loop: the next byte is
\* dispatched as a syscall opcode, and the loop stops only at the end of
\* command_data or on an error.
C35_ReturnAndEndDoNotStop ==
    /\ [](GlobalBuffer.assigned => ByteBehindIsDispatched)
    /\ []StopsAtEndOrError
    /\ [][ReturnOrEndStep]_vars

\* An end-processing opcode followed by a return opcode: both have been
\* dispatched, the second at offset 1, and the decode ended at the end of
\* the data.
C35_Witness ==
    /\ pc = "done"
    /\ result.exc = NoExc
    /\ GlobalBuffer.command_data = <<17, 13>>
    /\ Len(output) = 4
    /\ output[2].kind = "end_processing"
    /\ output[3].kind = "sys_opcode" /\ output[3].offset = 1
    /\ output[4].kind = "return"

\* The cursor is at a base opcode.
AtBaseOpcode ==
    /\ pc = "process_sys_calls"
    /\ GlobalBuffer.command_data_offset < Len(GlobalBuffer.command_data)
    /\ GlobalBuffer.command_data[GlobalBuffer.command_data_offset + 1] = 0

\* The lines the step adds to the output.
AddedEvents == SubSeq(output', Len(output) + 1, Len(output'))

\* The number of lines of the given kind among s.
CountKind(s, kind) == Cardinality({k \in 1..Len(s) : s[k].kind = kind})

\* The step of a base opcode: the outer loop goes on with no error recorded,
\* whatever became of the normal opcode; one syscall opcode was dispatched;
\* one normal opcode, the byte behind the base opcode, was decoded when
\* there is such a byte, and none otherwise.
BasicOperationStep ==
    AtBaseOpcode =>
        LET o == GlobalBuffer.command_data_offset
            d == GlobalBuffer.command_data
        IN  /\ pc' = "process_sys_calls"
            /\ result' = result
            /\ CountKind(AddedEvents, "sys_opcode") = 1
            /\ AddedEvents[1].kind = "sys_opcode"
            /\ AddedEvents[2].kind = "main_interpreter"
            /\ CountKind(AddedEvents, "normal_opcode") = IF o + 1 < Len(d) THEN 1 ELSE 0
            /\ o + 1 < Len(d) =>
                   /\ AddedEvents[3].kind = "normal_opcode"
                   /\ AddedEvents[3].offset = o + 1
                   /\ AddedEvents[3].opcode = d[o + 2]
                   /\ GlobalBuffer'.command_data_offset >= o + 2
            /\ ~(o + 1 < Len(d)) => GlobalBuffer'.command_data_offset = o + 1

\* Behind the normal opcode of a delegation, the next opcode decoded is a
\* syscall opcode: no normal opcode follows before it.
NoSecondNormalOpcode ==
    \A k \in 1..Len(output) :
        output[k].kind = "main_interpreter" =>
            \A j \in (k + 2)..Len(output) :
                output[j].kind = "normal_opcode" =>
                    \E i \in (k + 2)..(j - 1) : output[i].kind = "sys_opcode"

\* Every delegation from the base opcode has decoded a normal opcode.
C36_ExactlyOneNormalOpcode ==
    GlobalBuffer.assigned =>
        \A k \in 1..Len(output) :
            output[k].kind = "main_interpreter" =>
                /\ k < Len(output)
                /\ output[k + 1].kind = "normal_opcode"

\* C36: each delegation from the syscall base opcode 0x00 decodes at most
\* one normal opcode with its operands (exactly one when a byte follows the
\* base opcode, none when the base opcode is the last byte of command_data)
\* and then returns control to the outer loop whatever the inner outcome was
\* (success, end-of-stream or error): the next byte decoded is always
\* dispatched as a syscall opcode, never as a second normal opcode.
C36_AtMostOneNormalOpcode ==
    /\ [](GlobalBuffer.assigned => NoSecondNormalOpcode)
    /\ [][BasicOperationStep]_vars

\* Two delegations in a row: behind the normal opcode 0x04 of the first, the
\* byte 0x00 at offset 2 was dispatched as a syscall opcode, and the second
\* delegation decoded the normal opcode at offset 3.
C36_Witness ==
    /\ GlobalBuffer.command_data = <<0, 4, 0, 4>>
    /\ Len(output) >= 6
    /\ output[2].kind = "main_interpreter"
    /\ output[3].kind = "normal_opcode" /\ output[3].offset = 1
    /\ \E j \in 4..(Len(output) - 2) :
           /\ output[j].kind = "sys_opcode"
           /\ output[j].offset = 2 /\ output[j].opcode = 0
           /\ output[j + 1].kind = "main_interpreter"
           /\ output[j + 2].kind = "normal_opcode" /\ output[j + 2].offset = 3

====
